---------------------------- MODULE Spec2Model ----------------------------
(***************************************************************************)
(* SCZN3 SEC backend: the image-to-correction pipeline of POST /api/sec.   *)
(*                                                                         *)
(* The pipeline of src/unnamed/part_000 (ink box, target gates, square     *)
(* crop, paper gate, Otsu threshold, 4-connected labeling, candidate       *)
(* filter, noise and shot-count gates, tightest cluster, click conversion) *)
(* is modelled stage by stage on a real pixel buffer.  The click           *)
(* conversions of the other builds kept in the repository (computeSEC of   *)
(* src/server.js, the BULL LOGIC LOCK handler of src/unnamed/part_004) are *)
(* modelled as operators and exercised by SpecCalc.                        *)
(*                                                                         *)
(* Numbers.  JavaScript doubles are modelled by exact rationals: a         *)
(* rational is a pair <<n, d>> with d > 0, a click value is carried in     *)
(* hundredths after round2.  Math.round is round-half-up (toward +inf).    *)
(* Products that would not fit TLC's 32-bit integers go through MulDiv.    *)
(***************************************************************************)
EXTENDS Integers, Sequences, FiniteSets, TLC

VARIABLES
    pc,          \* position of the handler
    cfg,         \* process-wide Config (env-derived constants)
    hasFile,     \* req.file?.buffer present
    w, h,        \* info.width, info.height
    data,        \* decoded grayscale buffer, row-major, 0..w*h-1
    inkBox,      \* findBBoxNotWhite result (found = FALSE for null)
    region,      \* square crop {minX, minY, maxX, maxY, width, height}
    stats,       \* whiteCount / darkCount / totalPix of the region
    t,           \* clamped Otsu threshold
    mask,        \* set of buffer indices i with mask[i] = 1
    comps,       \* connectedComponents result
    candidates,  \* comps.filter(...)
    chosen,      \* pickTightest(candidates, MAX_SHOTS)
    out,         \* the response sent (code NONE before that)
    trace,       \* stages executed by the current invocation
    memo,        \* an earlier invocation's input and response
    env          \* what is under test: the build, the upload pool, a synthetic group

vars == <<pc, cfg, hasFile, w, h, data, inkBox, region, stats, t, mask,
          comps, candidates, chosen, out, trace, memo, env>>

\* values of state not yet computed by the current invocation
NoBox == [found |-> FALSE, minX |-> 0, minY |-> 0, maxX |-> 0, maxY |-> 0,
          width |-> 0, height |-> 0]
NoRegion == [minX |-> 0, minY |-> 0, maxX |-> 0, maxY |-> 0, width |-> 0, height |-> 0]
NoStats == [whiteCount |-> 0, darkCount |-> 0, totalPix |-> 0]

\* part_000 lines 18-53: the env-derived defaults.  Fractions are rationals.
DefaultConfig ==
    [DISTANCE_YARDS |-> 100, MOA_PER_CLICK |-> <<25, 100>>, TARGET_WIDTH_IN |-> 23,
     INK_PAD_PCT |-> <<3, 100>>,
     OTSU_CLAMP_MIN |-> 35, OTSU_CLAMP_MAX |-> 150,
     MIN_SHOTS |-> 3, MAX_SHOTS |-> 7,
     MIN_AREA_PCT |-> <<3, 100000>>, MAX_AREA_PCT |-> <<6, 1000>>,
     MAX_ASPECT |-> <<3, 1>>, MIN_FILL |-> <<20, 100>>,
     MAX_ABS_CLICKS |-> 80,
     MIN_BBOX_AREA_FRAC |-> <<18, 100>>,
     BBOX_ASPECT_MIN |-> <<80, 100>>, BBOX_ASPECT_MAX |-> <<125, 100>>,
     PAPER_WHITE_THRESH |-> 230, PAPER_WHITE_FRAC_MIN |-> <<28, 100>>,
     DARK_THRESH |-> 80, DARK_FRAC_MAX |-> <<25, 100>>,
     MAX_CANDIDATES |-> 60]

-----------------------------------------------------------------------------
(* Arithmetic helpers *)

Abs(x) == IF x < 0 THEN -x ELSE x
Min(a, b) == IF a < b THEN a ELSE b
Max(a, b) == IF a > b THEN a ELSE b
Sign(x) == IF x > 0 THEN 1 ELSE IF x < 0 THEN -1 ELSE 0

RECURSIVE GCD(_, _)
GCD(a, b) == IF b = 0 THEN a ELSE GCD(b, a % b)

LCM(a, b) == (a \div GCD(a, b)) * b

\* a*b = q*c + r with 0 <= r < c, for a, b >= 0 and c > 0, without forming a*b
RECURSIVE MulDiv(_, _, _)
MulDiv(a, b, c) ==
    IF b = 0 THEN <<0, 0>>
    ELSE LET hf == MulDiv(a, b \div 2, c)
             odd == (b % 2 = 1)
             r2 == 2 * hf[2] + (IF odd THEN a % c ELSE 0)
             q2 == 2 * hf[1] + (IF odd THEN a \div c ELSE 0)
         IN  <<q2 + (r2 \div c), r2 % c>>

\* Math.round(n / d) for integers n and d > 0: floor(n/d + 1/2)
RoundDiv(n, d) == (2 * n + d) \div (2 * d)

\* Math.round of sgn * (q + r/c), with 0 <= r < c
RoundParts(sgn, q, r, c) ==
    IF sgn >= 0 THEN q + (IF 2 * r >= c THEN 1 ELSE 0)
    ELSE -(q + (IF 2 * r > c THEN 1 ELSE 0))

\* clamp(n, lo, hi) == Math.max(lo, Math.min(hi, n))
clamp(n, lo, hi) == Max(lo, Min(hi, n))

-----------------------------------------------------------------------------
(* Components and group centroids.  A component keeps the integer sums the *)
(* labeler accumulated; its centroid is cx = sumX/area, cy = sumY/area.    *)

RECURSIVE LcmAreas(_)
LcmAreas(pts) == IF pts = << >> THEN 1 ELSE LCM(Head(pts).area, LcmAreas(Tail(pts)))

\* sum over pts of L * p.cx (an integer when L is a multiple of every area)
RECURSIVE ScaledSumX(_, _)
ScaledSumX(pts, L) ==
    IF pts = << >> THEN 0
    ELSE Head(pts).sumX * (L \div Head(pts).area) + ScaledSumX(Tail(pts), L)

RECURSIVE ScaledSumY(_, _)
ScaledSumY(pts, L) ==
    IF pts = << >> THEN 0
    ELSE Head(pts).sumY * (L \div Head(pts).area) + ScaledSumY(Tail(pts), L)

\* offset of the mean centroid of pts from the point (ax/2, ay/2), as the
\* rationals dx = px/q, dy = py/q
GroupOffset(pts, ax, ay) ==
    LET L == LcmAreas(pts)
        k == Len(pts)
    IN  [px |-> 2 * ScaledSumX(pts, L) - ax * L * k,
         py |-> 2 * ScaledSumY(pts, L) - ay * L * k,
         q  |-> 2 * L * k]

-----------------------------------------------------------------------------
(* Pixel offset -> clicks *)

\* 1.047 inches per MOA at 100 yards, as the rational 1047/1000
InchesPerMoaNum == 1047
InchesPerMoaDen == 1000

\* (p/q px) * (tw / width in/px) / (1.047 * (d/100) * (m[1]/m[2])) clicks, in
\* hundredths of a click, as sgn * (q + r/c) with 0 <= r < c
ClickParts(p, q, width, tw, d, m) ==
    IF d = 0 \/ m[1] = 0
    THEN \* a division by zero: 0/0 is NaN, anything else an infinity
         [sgn |-> Sign(p), q |-> 0, r |-> 0, c |-> 1,
          kind |-> IF p = 0 \/ tw = 0 THEN "nan" ELSE "inf"]
    ELSE
    LET KN == tw * 100 * InchesPerMoaDen * m[2]
        KD == InchesPerMoaNum * d * m[1]
        g  == GCD(KN, KD)
        c  == q * width * (KD \div g)
        md == MulDiv((KN \div g) * 100, Abs(p), c)
    IN  [sgn |-> Sign(p), q |-> md[1], r |-> md[2], c |-> c, kind |-> "num"]

Negate(v) == [v EXCEPT !.sgn = -v.sgn]

\* Math.abs(v) > lim, for v in hundredths and an integer lim in whole clicks:
\* true of an infinity, false of NaN
AbsExceeds(v, lim) ==
    \/ v.kind = "inf"
    \/ v.kind = "num" /\ (v.q > 100 * lim \/ (v.q = 100 * lim /\ v.r > 0))

\* round2(v), in hundredths
\* (0 for a non-finite v)
round2(v) == IF v.kind # "num" THEN 0 ELSE RoundParts(v.sgn, v.q, v.r, v.c)

\* clamp(v, -lim, lim)
ClampParts(v, lim) ==
    IF AbsExceeds(v, lim)
    THEN [sgn |-> v.sgn, q |-> 100 * lim, r |-> 0, c |-> v.c, kind |-> "num"]
    ELSE v

Response(ok, code, wind, elev, found, used, thr, dx, dy) ==
    [ok |-> ok, code |-> code, windage_clicks |-> wind, elevation_clicks |-> elev,
     shotsDetected |-> found, shotsUsed |-> used, threshold |-> thr,
     dxPx |-> dx, dyPx |-> dy]

\* a response without a sec block; absent numbers are written 0
Reject(code) == Response(FALSE, code, 0, 0, 0, 0, 0, 0, 0)

\* nothing sent yet
NoResponse == Reject("NONE")

\* memo: no earlier invocation is remembered
NoMemo == [set |-> FALSE, w |-> 0, h |-> 0, data |-> << >>, out |-> NoResponse,
           comps |-> << >>]

\* part_000, POST /api/sec, from the shot centroid to the response.  An empty
\* group makes every quantity NaN: no comparison with NaN holds and
\* round2(NaN) is 0.
WindageKept(dxClicks) == dxClicks
WindageClicks(dxClicks) == Negate(dxClicks)

ElevationNegated(dyClicks) == Negate(dyClicks)
ElevationClicks(dyClicks) == dyClicks

Correction(pts, reg, c, thr, found) ==
    IF Len(pts) = 0
    THEN Response(TRUE, "SUCCESS", 0, 0, found, 0, thr, 0, 0)
    ELSE
    LET off  == GroupOffset(pts, 2 * reg.minX + reg.width, 2 * reg.minY + reg.height)
        dxC  == ClickParts(off.px, off.q, reg.width, c.TARGET_WIDTH_IN,
                           c.DISTANCE_YARDS, c.MOA_PER_CLICK)
        dyC  == ClickParts(off.py, off.q, reg.width, c.TARGET_WIDTH_IN,
                           c.DISTANCE_YARDS, c.MOA_PER_CLICK)
        windageClicks   == WindageClicks(dxC)
        elevationClicks == ElevationClicks(dyC)
    IN  IF AbsExceeds(windageClicks, c.MAX_ABS_CLICKS)
           \/ AbsExceeds(elevationClicks, c.MAX_ABS_CLICKS)
        THEN Response(FALSE, "OUT_OF_RANGE", round2(windageClicks),
                      round2(elevationClicks), 0, Len(pts), thr, 0, 0)
        ELSE Response(TRUE, "SUCCESS", round2(windageClicks), round2(elevationClicks),
                      found, Len(pts), thr,
                      RoundDiv(100 * off.px, off.q), RoundDiv(100 * off.py, off.q))

\* src/server.js, computeSEC, from the used blobs to the returned sec: the
\* clicks are clamped to +/-MAX_ABS_CLICKS and returned.
ComputeSEC(used, bbox, opts, maxAbs) ==
    LET off == GroupOffset(used, 2 * bbox.x0 + bbox.width, 2 * bbox.y0 + bbox.height)
        dxC == ClickParts(off.px, off.q, bbox.width, opts.targetWidthIn,
                          opts.distanceYards, opts.moaPerClick)
        dyC == ClickParts(off.py, off.q, bbox.width, opts.targetWidthIn,
                          opts.distanceYards, opts.moaPerClick)
        windClicks == IF opts.convention = "DIAL_TO_GROUP" THEN dxC ELSE Negate(dxC)
        elevClicks == dyC
    IN  Response(TRUE, "SUCCESS", round2(ClampParts(windClicks, maxAbs)),
                 round2(ClampParts(elevClicks, maxAbs)), 0, Len(used), 0, 0, 0)

\* part_004 (BULL LOGIC LOCK), deriveDial: the direction words
deriveDial(clicksSigned) ==
    [windage   |-> IF clicksSigned.windage > 0 THEN "RIGHT"
                   ELSE IF clicksSigned.windage < 0 THEN "LEFT" ELSE "CENTER",
     elevation |-> IF clicksSigned.elevation > 0 THEN "UP"
                   ELSE IF clicksSigned.elevation < 0 THEN "DOWN" ELSE "LEVEL"]

\* round2((-poib) / inPerClick) for poib in hundredths of an inch, in
\* hundredths of a click; inPerClick = 1.047 * (d/100) * (m[1]/m[2])
PoibToClicks(poib, d, m) ==
    LET KN == 100 * InchesPerMoaDen * m[2]
        KD == InchesPerMoaNum * d * m[1]
        g  == GCD(KN, KD)
        md == MulDiv(KN \div g, Abs(poib), KD \div g)
    IN  RoundParts(-Sign(poib), md[1], md[2], KD \div g)

\* poibInches.y = round2(-dyImgIn) for dyImgIn = n/den inches: the one Y flip
PoibYUnflipped(n, den) == RoundDiv(n, den)
PoibY(n, den) == RoundDiv(-n, den)

\* part_004, POST /api/sec, from the holes to clicksSigned and dial.  ppi is
\* pixelsPerInch as a rational; the offsets are taken from the bull.
BullLock(holes, bullPx, ppi, d, m) ==
    LET off == GroupOffset(holes, 2 * bullPx.x, 2 * bullPx.y)
        \* dxIn = (off.px/off.q) / (ppi[1]/ppi[2]); dyImgIn likewise
        den == off.q * ppi[1]
        poibInches == [x |-> RoundDiv(100 * off.px * ppi[2], den),
                       y |-> PoibY(100 * off.py * ppi[2], den)]
        clicksSigned == [windage   |-> PoibToClicks(poibInches.x, d, m),
                         elevation |-> PoibToClicks(poibInches.y, d, m)]
    IN  IF d <= 0 \/ m[1] <= 0
        THEN [ok |-> FALSE, code |-> "BAD_CLICK_PARAMS", poibInches |-> poibInches,
              windage_clicks |-> 0, elevation_clicks |-> 0,
              dial |-> [windage |-> "", elevation |-> ""],
              expected |-> [windage |-> "", elevation |-> ""]]
        ELSE [ok |-> TRUE, code |-> "COMPUTED_FROM_IMAGE", poibInches |-> poibInches,
              windage_clicks |-> clicksSigned.windage,
              elevation_clicks |-> clicksSigned.elevation,
              dial |-> deriveDial(clicksSigned),
              expected |-> [windage   |-> IF off.px > 0 THEN "LEFT"
                                          ELSE IF off.px < 0 THEN "RIGHT" ELSE "CENTER",
                            elevation |-> IF off.py > 0 THEN "UP"
                                          ELSE IF off.py < 0 THEN "DOWN" ELSE "LEVEL"]]

-----------------------------------------------------------------------------
(* Natural numbers beyond 32 bits, for Otsu's between-class variance: a    *)
(* sequence of base-10000 limbs, least significant first.                  *)

Limb == 100 * 100

RECURSIVE BigOf(_)
BigOf(n) == IF n < Limb THEN <<n>> ELSE <<n % Limb>> \o BigOf(n \div Limb)

\* coefficient k (from 0) of the limb-wise product of a and b
RECURSIVE RawCoeff(_, _, _, _)
RawCoeff(a, b, k, i) ==
    IF i > Len(a) THEN 0
    ELSE (IF k - i + 2 >= 1 /\ k - i + 2 <= Len(b) THEN a[i] * b[k - i + 2] ELSE 0)
         + RawCoeff(a, b, k, i + 1)

RECURSIVE Carry(_, _, _, _, _)
Carry(a, b, k, n, carry) ==
    IF k = n THEN (IF carry = 0 THEN << >> ELSE BigOf(carry))
    ELSE LET v == RawCoeff(a, b, k, 1) + carry
         IN  <<v % Limb>> \o Carry(a, b, k + 1, n, v \div Limb)

RECURSIVE Trim(_)
Trim(a) == IF Len(a) > 1 /\ a[Len(a)] = 0 THEN Trim(SubSeq(a, 1, Len(a) - 1)) ELSE a

BigMul(a, b) == Trim(Carry(a, b, 0, Len(a) + Len(b) - 1, 0))

RECURSIVE BigGreaterFrom(_, _, _)
BigGreaterFrom(a, b, i) ==
    IF i = 0 THEN FALSE
    ELSE IF a[i] # b[i] THEN a[i] > b[i]
    ELSE BigGreaterFrom(a, b, i - 1)

\* a > b for trimmed a, b
BigGreater(a, b) ==
    IF Len(a) # Len(b) THEN Len(a) > Len(b) ELSE BigGreaterFrom(a, b, Len(a))

-----------------------------------------------------------------------------
(* Pixel stages of part_000 *)

SetMin(S) == CHOOSE x \in S : \A y \in S : x <= y
SetMax(S) == CHOOSE x \in S : \A y \in S : x >= y

\* n1/d1 < n2/d2 for positive denominators
FracLess(n1, d1, n2, d2) == n1 * d2 < n2 * d1

\* findBBoxNotWhite taking the threshold itself for ink (<= for <)
findBBoxAtThresh(gray, iw, ih, notWhiteThresh) ==
    LET nw == {i \in DOMAIN gray : gray[i] <= notWhiteThresh}
        xs == {i % iw : i \in nw}
        ys == {i \div iw : i \in nw}
    IN  IF nw = {} THEN NoBox
        ELSE [found |-> TRUE,
              minX |-> SetMin(xs), minY |-> SetMin(ys),
              maxX |-> SetMax(xs), maxY |-> SetMax(ys),
              width |-> SetMax(xs) - SetMin(xs) + 1,
              height |-> SetMax(ys) - SetMin(ys) + 1]

\* findBBoxNotWhite(gray, w, h, notWhiteThresh)
findBBoxNotWhite(gray, iw, ih, notWhiteThresh) ==
    LET nw == {i \in DOMAIN gray : gray[i] < notWhiteThresh}
        xs == {i % iw : i \in nw}
        ys == {i \div iw : i \in nw}
    IN  IF nw = {} THEN NoBox
        ELSE [found |-> TRUE,
              minX |-> SetMin(xs), minY |-> SetMin(ys),
              maxX |-> SetMax(xs), maxY |-> SetMax(ys),
              width |-> SetMax(xs) - SetMin(xs) + 1,
              height |-> SetMax(ys) - SetMin(ys) + 1]

\* the bbox gate: areaFrac < MIN_BBOX_AREA_FRAC || aspect < MIN || aspect > MAX
BBoxGateFails(box, iw, ih, c) ==
    \/ FracLess(box.width * box.height, iw * ih,
                c.MIN_BBOX_AREA_FRAC[1], c.MIN_BBOX_AREA_FRAC[2])
    \/ FracLess(box.width, box.height, c.BBOX_ASPECT_MIN[1], c.BBOX_ASPECT_MIN[2])
    \/ FracLess(c.BBOX_ASPECT_MAX[1], c.BBOX_ASPECT_MAX[2], box.width, box.height)

\* the square crop with the padded box left unclipped
SquareCropUnclipped(box, iw, ih, pad) ==
    LET padX == RoundDiv(box.width * pad[1], pad[2])
        padY == RoundDiv(box.height * pad[1], pad[2])
        x0 == box.minX - padX
        y0 == box.minY - padY
        x1 == box.maxX + padX
        y1 == box.maxY + padY
        bw == x1 - x0 + 1
        bh == y1 - y0 + 1
        side == Min(bw, bh)
        minX == clamp(RoundDiv(2 * x0 + bw - side, 2), 0, iw - side)
        minY == clamp(RoundDiv(2 * y0 + bh - side, 2), 0, ih - side)
    IN  [minX |-> minX, minY |-> minY,
         maxX |-> minX + side - 1, maxY |-> minY + side - 1,
         width |-> side, height |-> side]

\* the square crop: pad, clip, square, re-centre, clip
SquareCrop(box, iw, ih, pad) ==
    LET padX == RoundDiv(box.width * pad[1], pad[2])
        padY == RoundDiv(box.height * pad[1], pad[2])
        x0 == clamp(box.minX - padX, 0, iw - 1)
        y0 == clamp(box.minY - padY, 0, ih - 1)
        x1 == clamp(box.maxX + padX, 0, iw - 1)
        y1 == clamp(box.maxY + padY, 0, ih - 1)
        bw == x1 - x0 + 1
        bh == y1 - y0 + 1
        side == Min(bw, bh)
        \* Math.round(cx - side/2) with cx = x0 + bw/2
        minX == clamp(RoundDiv(2 * x0 + bw - side, 2), 0, iw - side)
        minY == clamp(RoundDiv(2 * y0 + bh - side, 2), 0, ih - side)
    IN  [minX |-> minX, minY |-> minY,
         maxX |-> minX + side - 1, maxY |-> minY + side - 1,
         width |-> side, height |-> side]

RegionIdx(reg, iw) ==
    {y * iw + x : x \in reg.minX..reg.maxX, y \in reg.minY..reg.maxY}

\* whiteCount, darkCount and totalPix of the region
RegionStats(gray, iw, reg, c) ==
    LET idx == RegionIdx(reg, iw)
    IN  [whiteCount |-> Cardinality({i \in idx : gray[i] >= c.PAPER_WHITE_THRESH}),
         darkCount  |-> Cardinality({i \in idx : gray[i] <= c.DARK_THRESH}),
         totalPix   |-> Cardinality(idx)]

\* whiteFrac < PAPER_WHITE_FRAC_MIN || darkFrac > DARK_FRAC_MAX
PaperGateFails(st, c) ==
    \/ FracLess(st.whiteCount, st.totalPix,
                c.PAPER_WHITE_FRAC_MIN[1], c.PAPER_WHITE_FRAC_MIN[2])
    \/ FracLess(c.DARK_FRAC_MAX[1], c.DARK_FRAC_MAX[2], st.darkCount, st.totalPix)

\* Otsu's loop for (let t = 0; t < 256; t++), taken over the grey levels
\* that occur, in ascending order: a bin with hist[t] = 0 leaves wB, wF and
\* sumB as they were, so it neither exits the loop nor yields a between
\* greater than varMax.  between = wB*wF*(mB-mF)^2 is the rational
\* n^2/(wB*wF) with n = sumB*total - sum*wB; varMax is kept as vn^2/vd, and
\* is -1 while vd = 0.
RECURSIVE OtsuLoop(_, _, _, _, _, _, _, _, _)
OtsuLoop(hist, total, sum, levels, wB0, sumB0, vn, vd, threshold) ==
    IF levels = {} THEN threshold
    ELSE LET tt == SetMin(levels)
             rest == levels \ {tt}
             wB == wB0 + hist[tt]
             wF == total - wB
             sumB == sumB0 + tt * hist[tt]
             n == Abs(sumB * total - sum * wB)
             d == wB * wF
             better ==
                 \/ vd = 0
                 \/ BigGreater(BigMul(BigMul(BigOf(n), BigOf(n)), BigOf(vd)),
                               BigMul(BigMul(BigOf(vn), BigOf(vn)), BigOf(d)))
         IN  IF wB = 0 THEN OtsuLoop(hist, total, sum, rest, wB, sumB0, vn, vd, threshold)
             ELSE IF wF = 0 THEN threshold
             ELSE IF better
                  THEN OtsuLoop(hist, total, sum, rest, wB, sumB, n, d, tt)
             ELSE OtsuLoop(hist, total, sum, rest, wB, sumB, vn, vd, threshold)

RECURSIVE WeightedSum(_, _)
WeightedSum(hist, levels) ==
    IF levels = {} THEN 0
    ELSE LET v == CHOOSE x \in levels : TRUE
         IN  v * hist[v] + WeightedSum(hist, levels \ {v})

\* the threshold put at the first split with both classes non-empty
otsuFirstSplit(gray, idx) ==
    LET levels == {gray[i] : i \in idx}
    IN  IF Cardinality(levels) < 2 THEN 90 ELSE SetMin(levels)

\* otsuThreshold over the region's pixels (regionGray); the default
\* threshold 90 stands when no split has both classes non-empty
otsuThreshold(gray, idx) ==
    LET levels == {gray[i] : i \in idx}
        hist == [v \in levels |-> Cardinality({i \in idx : gray[i] = v})]
    IN  OtsuLoop(hist, Cardinality(idx), WeightedSum(hist, levels), levels, 0, 0, 0, 0, 90)

\* the mask taking the threshold itself for foreground (<= for <)
BuildMaskAtThresh(gray, idx, thr) == {i \in idx : gray[i] <= thr}

\* mask[i] = data[i] < t ? 1 : 0 over the region, as the set of 1-pixels
BuildMask(gray, idx, thr) == {i \in idx : gray[i] < thr}

\* a flood fill that never pushes the pixel below
RECURSIVE FillNoDown(_, _, _, _, _, _)
FillNoDown(stack, visited, acc, msk, iw, reg) ==
    IF stack = << >> THEN [visited |-> visited, acc |-> acc]
    ELSE LET i  == stack[Len(stack)]
             s0 == SubSeq(stack, 1, Len(stack) - 1)
             ix == i % iw
             iy == i \div iw
             acc2 == [area |-> acc.area + 1,
                      sumX |-> acc.sumX + ix, sumY |-> acc.sumY + iy,
                      bx0 |-> Min(acc.bx0, ix), by0 |-> Min(acc.by0, iy),
                      bx1 |-> Max(acc.bx1, ix), by1 |-> Max(acc.by1, iy)]
             goL == ix > reg.minX /\ (i - 1) \in msk /\ (i - 1) \notin visited
             goR == ix < reg.maxX /\ (i + 1) \in msk /\ (i + 1) \notin visited
             goU == iy > reg.minY /\ (i - iw) \in msk /\ (i - iw) \notin visited
             pushed == (IF goL THEN <<i - 1>> ELSE << >>)
                       \o (IF goR THEN <<i + 1>> ELSE << >>)
                       \o (IF goU THEN <<i - iw>> ELSE << >>)
         IN  FillNoDown(s0 \o pushed, visited \cup {pushed[j] : j \in 1..Len(pushed)},
                        acc2, msk, iw, reg)

\* the flood fill of one component: pop, accumulate, push the unvisited
\* foreground 4-neighbours inside the region (left, right, up, down)
RECURSIVE Fill(_, _, _, _, _, _)
Fill(stack, visited, acc, msk, iw, reg) ==
    IF stack = << >> THEN [visited |-> visited, acc |-> acc]
    ELSE LET i  == stack[Len(stack)]
             s0 == SubSeq(stack, 1, Len(stack) - 1)
             ix == i % iw
             iy == i \div iw
             acc2 == [area |-> acc.area + 1,
                      sumX |-> acc.sumX + ix, sumY |-> acc.sumY + iy,
                      bx0 |-> Min(acc.bx0, ix), by0 |-> Min(acc.by0, iy),
                      bx1 |-> Max(acc.bx1, ix), by1 |-> Max(acc.by1, iy)]
             goL == ix > reg.minX /\ (i - 1) \in msk /\ (i - 1) \notin visited
             goR == ix < reg.maxX /\ (i + 1) \in msk /\ (i + 1) \notin visited
             goU == iy > reg.minY /\ (i - iw) \in msk /\ (i - iw) \notin visited
             goD == iy < reg.maxY /\ (i + iw) \in msk /\ (i + iw) \notin visited
             pushed == (IF goL THEN <<i - 1>> ELSE << >>)
                       \o (IF goR THEN <<i + 1>> ELSE << >>)
                       \o (IF goU THEN <<i - iw>> ELSE << >>)
                       \o (IF goD THEN <<i + iw>> ELSE << >>)
         IN  Fill(s0 \o pushed, visited \cup {pushed[j] : j \in 1..Len(pushed)},
                  acc2, msk, iw, reg)

\* the row-major scan: the next seed is the first foreground pixel of the
\* region not yet visited
RECURSIVE Scan(_, _, _, _, _, _)
Scan(visited, found, msk, iw, ih, reg) ==
    LET todo == msk \ visited
    IN  IF todo = {} THEN found
        ELSE LET i0 == SetMin(todo)
                 f  == Fill(<<i0>>, visited \cup {i0},
                            [area |-> 0, sumX |-> 0, sumY |-> 0,
                             bx0 |-> iw, by0 |-> ih, bx1 |-> -1, by1 |-> -1],
                            msk, iw, reg)
             IN  Scan(f.visited, Append(found, f.acc), msk, iw, ih, reg)

\* new Uint8Array(w * h) and const comps = [] are allocated by every call
FreshVisited == {}

\* comps kept at module scope: the remembered call's components stay in it
StaleComps == memo.comps
EmptyComps == << >>

\* connectedComponents(mask, w, h, region)
connectedComponents(msk, iw, ih, reg) ==
    Scan(FreshVisited, EmptyComps, msk \cap RegionIdx(reg, iw), iw, ih, reg)

\* margin = Math.max(10, Math.round(region.width * 0.01))
MinMargin == 10

\* the margin without its 10 px floor
MarginPct(reg) == RoundDiv(reg.width, 100)
Margin(reg) == Max(MinMargin, RoundDiv(reg.width, 100))

\* the candidate filter with fill > MIN_FILL for fill >= MIN_FILL
IsCandidateFillAbove(cmp, reg, c) ==
    LET targetArea == reg.width * reg.height
        minArea == RoundDiv(targetArea * c.MIN_AREA_PCT[1], c.MIN_AREA_PCT[2])
        maxArea == RoundDiv(targetArea * c.MAX_AREA_PCT[1], c.MAX_AREA_PCT[2])
        margin == Margin(reg)
        bw == cmp.bx1 - cmp.bx0 + 1
        bh == cmp.by1 - cmp.by0 + 1
    IN  /\ ~(cmp.area < minArea \/ cmp.area > maxArea)
        /\ ~FracLess(c.MAX_ASPECT[1], c.MAX_ASPECT[2], Max(bw, bh), Min(bw, bh))
        /\ FracLess(c.MIN_FILL[1], c.MIN_FILL[2], cmp.area, bw * bh)
        /\ ~(cmp.bx0 <= reg.minX + margin)
        /\ ~(cmp.by0 <= reg.minY + margin)
        /\ ~(cmp.bx1 >= reg.maxX - margin)
        /\ ~(cmp.by1 >= reg.maxY - margin)

\* the candidate filter of comps.filter(...)
IsCandidate(cmp, reg, c) ==
    LET targetArea == reg.width * reg.height
        minArea == RoundDiv(targetArea * c.MIN_AREA_PCT[1], c.MIN_AREA_PCT[2])
        maxArea == RoundDiv(targetArea * c.MAX_AREA_PCT[1], c.MAX_AREA_PCT[2])
        margin == Margin(reg)
        bw == cmp.bx1 - cmp.bx0 + 1
        bh == cmp.by1 - cmp.by0 + 1
    IN  /\ ~(cmp.area < minArea \/ cmp.area > maxArea)
        /\ ~FracLess(c.MAX_ASPECT[1], c.MAX_ASPECT[2], Max(bw, bh), Min(bw, bh))
        /\ ~FracLess(cmp.area, bw * bh, c.MIN_FILL[1], c.MIN_FILL[2])
        /\ ~(cmp.bx0 <= reg.minX + margin)
        /\ ~(cmp.by0 <= reg.minY + margin)
        /\ ~(cmp.bx1 >= reg.maxX - margin)
        /\ ~(cmp.by1 >= reg.maxY - margin)

\* comps.filter(...): the Components that pass, in their order
FilterSeq(cs, reg, c) ==
    LET Keep(cmp) == IsCandidate(cmp, reg, c)
    IN  SelectSeq(cs, Keep)

\* squared distance of p from the mean of points, times (L * n)^2
D2(p, points, L) ==
    LET n  == Len(points)
        nx == p.sumX * (L \div p.area) * n - ScaledSumX(points, L)
        ny == p.sumY * (L \div p.area) * n - ScaledSumY(points, L)
    IN  nx * nx + ny * ny

\* the insertion placing x before the elements whose key equals its own
RECURSIVE InsertBeforeEqual(_, _, _, _)
InsertBeforeEqual(sorted, x, points, L) ==
    IF sorted = << >> THEN <<x>>
    ELSE IF D2(x, points, L) <= D2(Head(sorted), points, L) THEN <<x>> \o sorted
    ELSE <<Head(sorted)>> \o InsertBeforeEqual(Tail(sorted), x, points, L)

\* insert x into the sorted seq after every element whose key is <= its own
RECURSIVE InsertStable(_, _, _, _)
InsertStable(sorted, x, points, L) ==
    IF sorted = << >> THEN <<x>>
    ELSE IF D2(x, points, L) < D2(Head(sorted), points, L) THEN <<x>> \o sorted
    ELSE <<Head(sorted)>> \o InsertStable(Tail(sorted), x, points, L)

RECURSIVE SortByD2(_, _, _, _)
SortByD2(sorted, todo, points, L) ==
    IF todo = << >> THEN sorted
    ELSE SortByD2(InsertStable(sorted, Head(todo), points, L), Tail(todo), points, L)

\* pickTightest keeping the first kMax points as found
pickFirst(points, kMax) ==
    IF Len(points) <= kMax THEN points
    ELSE SubSeq(points, 1, kMax)

\* pickTightest(points, kMax); Array.prototype.sort is stable
pickTightest(points, kMax) ==
    IF Len(points) <= kMax THEN points
    ELSE SubSeq(SortByD2(<< >>, points, points, LcmAreas(points)), 1, kMax)

-----------------------------------------------------------------------------
(* The handler, stage by stage (part_000, POST /api/sec) *)

\* an upload, decoded: paper of the given background level, printed ink
\* (grey 200) and dark marks
MakeImage(d) ==
    [i \in 0..(d.w * d.h - 1) |->
        LET xy == <<i % d.w, i \div d.w>>
        IN  IF xy \in d.dark THEN d.darkGray
            ELSE IF xy \in d.ink THEN 200
            ELSE d.bg]

ImgSide == 25
MaxDark == 3

ImgMid == ImgSide \div 2

\* where marks may be: a 3 x 3 window on the middle of the image
MarkPool == {<<x, y>> : x \in (ImgMid - 1)..(ImgMid + 1), y \in (ImgMid - 1)..(ImgMid + 1)}
MarkSets == {m \in SUBSET MarkPool : Cardinality(m) <= MaxDark}

Corners(x0, y0, x1, y1) == {<<x0, y0>>, <<x1, y1>>}

\* the prints: <<image width, image height, inset of the print's corners>>
Prints == {<<ImgSide, ImgSide, 0>>, <<ImgSide, ImgSide, 2>>, <<ImgSide + 2, ImgSide, 0>>}

\* framed targets: white paper, ink at two opposite corners of the print,
\* black marks inside
Targets ==
    {[w |-> p[1], h |-> p[2], bg |-> 255, darkGray |-> 0,
      ink |-> Corners(p[3], p[3], p[1] - 1 - p[3], p[2] - 1 - p[3]), dark |-> m] :
        p \in Prints, m \in MarkSets}

\* uploads that are no target: blank paper (white, and at the not-white
\* threshold), a small or a long print, a dark or a grey scene
NonTargets ==
    {[w |-> ImgSide, h |-> ImgSide, bg |-> 255, darkGray |-> 0,
      ink |-> {}, dark |-> {}],
     [w |-> ImgSide, h |-> ImgSide, bg |-> 255, darkGray |-> 0,
      ink |-> Corners(ImgMid - 2, ImgMid - 2, ImgMid + 2, ImgMid + 2),
      dark |-> {<<ImgMid, ImgMid>>}],
     [w |-> ImgSide, h |-> ImgSide, bg |-> 255, darkGray |-> 0,
      ink |-> Corners(0, ImgMid - 8, ImgSide - 1, ImgMid + 8),
      dark |-> {<<ImgMid, ImgMid>>}],
     [w |-> ImgSide, h |-> ImgSide, bg |-> 235, darkGray |-> 0,
      ink |-> {}, dark |-> {}],
     [w |-> ImgSide, h |-> ImgSide, bg |-> 0, darkGray |-> 0,
      ink |-> {}, dark |-> {}],
     [w |-> ImgSide, h |-> ImgSide, bg |-> 128, darkGray |-> 0,
      ink |-> {}, dark |-> {<<ImgMid, ImgMid>>}]}

\* a few targets: the full-size print with marks out of four positions
FewMarks == {<<ImgMid - 1, ImgMid - 1>>, <<ImgMid + 1, ImgMid - 1>>,
             <<ImgMid, ImgMid>>, <<ImgMid, ImgMid + 1>>}
FewTargets ==
    {d \in Targets : d.w = ImgSide /\ <<0, 0>> \in d.ink /\ d.dark \subseteq FewMarks}

Uploads(pool) ==
    IF pool = "all" THEN Targets \cup NonTargets ELSE FewTargets \cup NonTargets

Stage(name) == trace' = Append(trace, name)

Receive ==
    /\ pc = "idle"
    /\ \E f \in BOOLEAN :
         /\ hasFile' = f
         /\ IF f THEN pc' = "decode" /\ out' = out
            ELSE pc' = "done" /\ out' = Reject("NO_FILE")
    /\ trace' = <<"receive">>
    /\ UNCHANGED <<cfg, w, h, data, inkBox, region, stats, t, mask, comps,
                   candidates, chosen, memo, env>>

\* the await on sharp: the buffer decodes to a grayscale image
Decoded ==
    /\ pc = "decode"
    /\ \E d \in Uploads(env.pool) :
         /\ w' = d.w
         /\ h' = d.h
         /\ data' = MakeImage(d)
    /\ pc' = "locate"
    /\ Stage("decode")
    /\ UNCHANGED <<cfg, hasFile, inkBox, region, stats, t, mask, comps,
                   candidates, chosen, out, memo, env>>

\* the await on sharp rejects: the catch block answers 500
DecodeFails ==
    /\ pc = "decode"
    /\ pc' = "done"
    /\ out' = Reject("INTERNAL_ERROR")
    /\ Stage("decode")
    /\ UNCHANGED <<cfg, hasFile, w, h, data, inkBox, region, stats, t, mask,
                   comps, candidates, chosen, memo, env>>

NotWhiteThresh == 235

Locate ==
    /\ pc = "locate"
    /\ inkBox' = findBBoxNotWhite(data, w, h, NotWhiteThresh)
    /\ IF inkBox'.found THEN pc' = "bboxgate" /\ out' = out
       ELSE pc' = "done" /\ out' = Reject("NO_TARGET_REGION")
    /\ Stage("locate")
    /\ UNCHANGED <<cfg, hasFile, w, h, data, region, stats, t, mask, comps,
                   candidates, chosen, memo, env>>

BBoxGate ==
    /\ pc = "bboxgate"
    /\ IF BBoxGateFails(inkBox, w, h, cfg)
       THEN pc' = "done" /\ out' = Reject("NOT_FULL_TARGET_IN_FRAME")
       ELSE pc' = "crop" /\ out' = out
    /\ Stage("bboxgate")
    /\ UNCHANGED <<cfg, hasFile, w, h, data, inkBox, region, stats, t, mask,
                   comps, candidates, chosen, memo, env>>

Crop ==
    /\ pc = "crop"
    /\ region' = SquareCrop(inkBox, w, h, cfg.INK_PAD_PCT)
    /\ pc' = "paper"
    /\ Stage("crop")
    /\ UNCHANGED <<cfg, hasFile, w, h, data, inkBox, stats, t, mask, comps,
                   candidates, chosen, out, memo, env>>

PaperGate ==
    /\ pc = "paper"
    /\ stats' = RegionStats(data, w, region, cfg)
    /\ IF PaperGateFails(stats', cfg)
       THEN pc' = "done" /\ out' = Reject("NOT_PAPER_TARGET")
       ELSE pc' = "binarize" /\ out' = out
    /\ Stage("paper")
    /\ UNCHANGED <<cfg, hasFile, w, h, data, inkBox, region, t, mask, comps,
                   candidates, chosen, memo, env>>

Binarize ==
    /\ pc = "binarize"
    /\ t' = clamp(otsuThreshold(data, RegionIdx(region, w)),
                  cfg.OTSU_CLAMP_MIN, cfg.OTSU_CLAMP_MAX)
    /\ mask' = BuildMask(data, RegionIdx(region, w), t')
    /\ pc' = "label"
    /\ Stage("binarize")
    /\ UNCHANGED <<cfg, hasFile, w, h, data, inkBox, region, stats, comps,
                   candidates, chosen, out, memo, env>>

Label ==
    /\ pc = "label"
    /\ comps' = connectedComponents(mask, w, h, region)
    /\ pc' = "filter"
    /\ Stage("label")
    /\ UNCHANGED <<cfg, hasFile, w, h, data, inkBox, region, stats, t, mask,
                   candidates, chosen, out, memo, env>>

Filter ==
    /\ pc = "filter"
    /\ candidates' = FilterSeq(comps, region, cfg)
    /\ pc' = "noise"
    /\ Stage("filter")
    /\ UNCHANGED <<cfg, hasFile, w, h, data, inkBox, region, stats, t, mask,
                   comps, chosen, out, memo, env>>

\* the noise gate rejecting at MAX_CANDIDATES already
NoiseGateInclusive ==
    /\ pc = "noise"
    /\ IF Len(candidates) >= cfg.MAX_CANDIDATES
       THEN pc' = "done" /\ out' = [Reject("TOO_NOISY") EXCEPT
                                      !.threshold = t, !.shotsDetected = Len(candidates)]
       ELSE pc' = "minshots" /\ out' = out
    /\ Stage("noise")
    /\ UNCHANGED <<cfg, hasFile, w, h, data, inkBox, region, stats, t, mask,
                   comps, candidates, chosen, memo, env>>

NoiseGate ==
    /\ pc = "noise"
    /\ IF Len(candidates) > cfg.MAX_CANDIDATES
       THEN pc' = "done" /\ out' = [Reject("TOO_NOISY") EXCEPT
                                      !.threshold = t, !.shotsDetected = Len(candidates)]
       ELSE pc' = "minshots" /\ out' = out
    /\ Stage("noise")
    /\ UNCHANGED <<cfg, hasFile, w, h, data, inkBox, region, stats, t, mask,
                   comps, candidates, chosen, memo, env>>

\* the MIN_SHOTS gate answering without returning
MinShotsGateNoReturn ==
    /\ pc = "minshots"
    /\ IF Len(candidates) < cfg.MIN_SHOTS
       THEN pc' = "cluster" /\ out' = [Reject("NOT_ENOUGH_SHOTS") EXCEPT
                                      !.threshold = t, !.shotsDetected = Len(candidates)]
       ELSE pc' = "cluster" /\ out' = out
    /\ Stage("minshots")
    /\ UNCHANGED <<cfg, hasFile, w, h, data, inkBox, region, stats, t, mask,
                   comps, candidates, chosen, memo, env>>

MinShotsGate ==
    /\ pc = "minshots"
    /\ IF Len(candidates) < cfg.MIN_SHOTS
       THEN pc' = "done" /\ out' = [Reject("NOT_ENOUGH_SHOTS") EXCEPT
                                      !.threshold = t, !.shotsDetected = Len(candidates)]
       ELSE pc' = "cluster" /\ out' = out
    /\ Stage("minshots")
    /\ UNCHANGED <<cfg, hasFile, w, h, data, inkBox, region, stats, t, mask,
                   comps, candidates, chosen, memo, env>>

Cluster ==
    /\ pc = "cluster"
    /\ chosen' = pickTightest(candidates, cfg.MAX_SHOTS)
    /\ pc' = "correct"
    /\ Stage("cluster")
    /\ UNCHANGED <<cfg, hasFile, w, h, data, inkBox, region, stats, t, mask,
                   comps, candidates, out, memo, env>>

Correct ==
    /\ pc = "correct"
    /\ out' = Correction(chosen, region, cfg, t, Len(candidates))
    /\ pc' = "done"
    /\ Stage("correct")
    /\ UNCHANGED <<cfg, hasFile, w, h, data, inkBox, region, stats, t, mask,
                   comps, candidates, chosen, memo, env>>

\* the invocation's locals are dropped
Reset ==
    /\ pc' = "idle"
    /\ hasFile' = FALSE
    /\ w' = 0 /\ h' = 0 /\ data' = << >>
    /\ inkBox' = NoBox /\ region' = NoRegion /\ stats' = NoStats
    /\ t' = 0 /\ mask' = {}
    /\ comps' = << >> /\ candidates' = << >> /\ chosen' = << >>
    /\ out' = NoResponse
    /\ trace' = << >>

\* the response is sent
Respond ==
    /\ pc = "done"
    /\ Reset
    /\ UNCHANGED <<cfg, memo, env>>

\* the response is sent, and this invocation is the one remembered: its
\* decoded image, its outcome, the components it labelled
Remember ==
    /\ pc = "done"
    /\ w > 0
    /\ ~memo.set
    /\ memo' = [set |-> TRUE, w |-> w, h |-> h, data |-> data, out |-> out,
                comps |-> comps]
    /\ Reset
    /\ UNCHANGED <<cfg, env>>

Configs ==
    {DefaultConfig,
     [DefaultConfig EXCEPT !.MAX_SHOTS = 2],
     [DefaultConfig EXCEPT !.MIN_SHOTS = 1, !.MAX_SHOTS = 2],
     [DefaultConfig EXCEPT !.MAX_CANDIDATES = 1],
     [DefaultConfig EXCEPT !.MAX_ABS_CLICKS = 3],
     [DefaultConfig EXCEPT !.INK_PAD_PCT = <<1, 2>>]}

NoEnv == [build |-> "gated", pool |-> "all", ox |-> 0, oy |-> 0, e |-> 0, f |-> 0]

Init ==
    /\ cfg \in Configs
    /\ env = NoEnv
    /\ pc = "idle"
    /\ hasFile = FALSE
    /\ w = 0 /\ h = 0 /\ data = << >>
    /\ inkBox = NoBox /\ region = NoRegion /\ stats = NoStats
    /\ t = 0 /\ mask = {}
    /\ comps = << >> /\ candidates = << >> /\ chosen = << >>
    /\ out = NoResponse
    /\ trace = << >>
    /\ memo = NoMemo

Next ==
    \/ Receive \/ Decoded \/ DecodeFails \/ Locate \/ BBoxGate \/ Crop \/ PaperGate
    \/ Binarize \/ Label \/ Filter \/ NoiseGate \/ MinShotsGate \/ Cluster
    \/ Correct \/ Respond

Spec == Init /\ [][Next]_vars

-----------------------------------------------------------------------------
(* SpecDet: the handler serving request after request, one earlier          *)
(* invocation remembered.  The handler keeps every intermediate value in    *)
(* locals and the configuration in module constants, so two invocations     *)
(* interleaved at the await share nothing a sequential run would not.       *)

InitDet ==
    /\ cfg \in Configs
    /\ env = [NoEnv EXCEPT !.pool = "few"]
    /\ pc = "idle"
    /\ hasFile = FALSE
    /\ w = 0 /\ h = 0 /\ data = << >>
    /\ inkBox = NoBox /\ region = NoRegion /\ stats = NoStats
    /\ t = 0 /\ mask = {}
    /\ comps = << >> /\ candidates = << >> /\ chosen = << >>
    /\ out = NoResponse
    /\ trace = << >>
    /\ memo = NoMemo

NextDet == Next \/ Remember

SpecDet == InitDet /\ [][NextDet]_vars

-----------------------------------------------------------------------------
(* SpecCrop: the square crop on its own, over every bounding box of every   *)
(* small image                                                             *)

CropMax == 5
CropPads == {<<0, 1>>, <<3, 100>>, <<1, 2>>, <<2, 1>>}

Box(x0, y0, x1, y1) ==
    [found |-> TRUE, minX |-> x0, minY |-> y0, maxX |-> x1, maxY |-> y1,
     width |-> x1 - x0 + 1, height |-> y1 - y0 + 1]

InitCrop ==
    /\ \E pad \in CropPads : cfg = [DefaultConfig EXCEPT !.INK_PAD_PCT = pad]
    /\ w \in 1..CropMax
    /\ h \in 1..CropMax
    /\ \E x0 \in 0..(w - 1), y0 \in 0..(h - 1) :
         \E x1 \in x0..(w - 1), y1 \in y0..(h - 1) : inkBox = Box(x0, y0, x1, y1)
    /\ env = [NoEnv EXCEPT !.pool = "none"]
    /\ pc = "crop"
    /\ hasFile = TRUE
    /\ data = << >>
    /\ region = NoRegion /\ stats = NoStats
    /\ t = 0 /\ mask = {}
    /\ comps = << >> /\ candidates = << >> /\ chosen = << >>
    /\ out = NoResponse
    /\ trace = <<"receive", "decode", "locate", "bboxgate">>
    /\ memo = NoMemo

NextCrop == Crop

SpecCrop == InitCrop /\ [][NextCrop]_vars

-----------------------------------------------------------------------------
(* SpecCalc: the click conversions of the three builds on synthetic shot   *)
(* groups.  A group is a row of k marks 3 px apart around the point        *)
(* (width/2 + ox, width/2 + oy); the first mark may be a horizontal domino *)
(* (e), the last a vertical one (f), which moves the mean centroid by      *)
(* e/(2k) and f/(2k) px.                                                   *)

PixelComp(x, y) ==
    [area |-> 1, sumX |-> x, sumY |-> y, bx0 |-> x, by0 |-> y, bx1 |-> x, by1 |-> y]

\* the two pixels (x, y) and (x + e, y) for e # 0
HDomino(x, y, e) ==
    IF e = 0 THEN PixelComp(x, y)
    ELSE [area |-> 2, sumX |-> 2 * x + e, sumY |-> 2 * y,
          bx0 |-> Min(x, x + e), by0 |-> y, bx1 |-> Max(x, x + e), by1 |-> y]

VDomino(x, y, f) ==
    IF f = 0 THEN PixelComp(x, y)
    ELSE [area |-> 2, sumX |-> 2 * x, sumY |-> 2 * y + f,
          bx0 |-> x, by0 |-> Min(y, y + f), bx1 |-> x, by1 |-> Max(y, y + f)]

RowGroup(X, Y, k, e, f) ==
    [j \in 1..k |->
        LET x == X + 3 * (j - 1) - 3 * ((k - 1) \div 2)
        IN  IF j = 1 THEN HDomino(x, Y, e)
            ELSE IF j = k THEN VDomino(x, Y, f)
            ELSE PixelComp(x, Y)]

CalcWidths == {100, 1400}
CalcSizes == {3, 7}
CalcNudges == {-1, 0, 1}
CalcShifts(width) == {-(width \div 4), 0, width \div 4}
CalcBuilds == {"gated", "clean", "clean-group", "lock"}
CalcConfigs == {DefaultConfig, [DefaultConfig EXCEPT !.DISTANCE_YARDS = 25]}

SquareRegion(width) ==
    [minX |-> 0, minY |-> 0, maxX |-> width - 1, maxY |-> width - 1,
     width |-> width, height |-> width]

InitCalc ==
    /\ cfg \in CalcConfigs
    /\ \E width \in CalcWidths, k \in CalcSizes, e \in CalcNudges, f \in CalcNudges,
          b \in CalcBuilds :
         \E ox \in CalcShifts(width), oy \in CalcShifts(width) :
            /\ env = [build |-> b, pool |-> "none", ox |-> ox, oy |-> oy, e |-> e, f |-> f]
            /\ region = SquareRegion(width)
            /\ chosen = RowGroup(width \div 2 + ox, width \div 2 + oy, k, e, f)
            /\ pc = IF b = "gated" THEN "correct" ELSE "calc"
    /\ candidates = chosen
    /\ comps = chosen
    /\ t = cfg.OTSU_CLAMP_MIN
    /\ hasFile = TRUE
    /\ w = region.width /\ h = region.height
    /\ data = << >> /\ mask = {} /\ inkBox = NoBox /\ stats = NoStats
    /\ out = NoResponse /\ trace = << >> /\ memo = NoMemo

\* computeSEC on the group: bbox is the region, opts default to the Config
CalcClean ==
    /\ pc = "calc"
    /\ env.build \in {"clean", "clean-group"}
    /\ out' = ComputeSEC(chosen,
                         [x0 |-> region.minX, y0 |-> region.minY,
                          width |-> region.width, height |-> region.height],
                         [convention |-> IF env.build = "clean" THEN "DIAL_TO_CENTER"
                                         ELSE "DIAL_TO_GROUP",
                          distanceYards |-> cfg.DISTANCE_YARDS,
                          moaPerClick |-> cfg.MOA_PER_CLICK,
                          targetWidthIn |-> cfg.TARGET_WIDTH_IN],
                         cfg.MAX_ABS_CLICKS)
    /\ pc' = "done"
    /\ UNCHANGED <<cfg, hasFile, w, h, data, inkBox, region, stats, t, mask,
                   comps, candidates, chosen, trace, memo, env>>

\* the BULL LOGIC LOCK conversion on the group: the bull is the middle of the
\* image and pixelsPerInch the no-fiducials fallback (w/23 + h/23) / 2
CalcLock ==
    /\ pc = "calc"
    /\ env.build = "lock"
    /\ out' = BullLock(chosen, [x |-> w \div 2, y |-> h \div 2], <<w + h, 46>>,
                       cfg.DISTANCE_YARDS, cfg.MOA_PER_CLICK)
    /\ pc' = "done"
    /\ UNCHANGED <<cfg, hasFile, w, h, data, inkBox, region, stats, t, mask,
                   comps, candidates, chosen, trace, memo, env>>

NextCalc == Correct \/ CalcClean \/ CalcLock

SpecCalc == InitCalc /\ [][NextCalc]_vars

-----------------------------------------------------------------------------
(* SpecFilter: the handler from the candidate filter on, given the          *)
(* Components of a Region: isolated dark speckles on a lattice, or two      *)
(* blobs near the Region's border                                          *)

SpeckleCount == 200

\* the k-th speckle (k from 0) of the lattice of stride s from (ox, oy),
\* row by row: the order in which the raster scan finds them
Speckle(k, side, s, ox, oy) ==
    LET cols == (side - 1 - ox) \div s + 1
    IN  PixelComp(ox + (k % cols) * s, oy + (k \div cols) * s)

Speckles(side, s, ox, oy) ==
    [j \in 1..SpeckleCount |-> Speckle(j - 1, side, s, ox, oy)]

\* the last speckle is inside the Region
SpecklesFit(side, s, ox, oy) == Speckle(SpeckleCount - 1, side, s, ox, oy).by1 <= side - 1

SpeckleSides == {29, 100, 300, 1400}

\* strides that spread the speckles over most of the Region
SpeckleStrides(side) == {Max(2, side \div 16), Max(2, side \div 16) + 1}

\* a filled bw x bh rectangle with its top left pixel at (x, y)
Rect(x, y, bw, bh) ==
    [area |-> bw * bh,
     sumX |-> bh * (bw * x + (bw * (bw - 1)) \div 2),
     sumY |-> bw * (bh * y + (bh * (bh - 1)) \div 2),
     bx0 |-> x, by0 |-> y, bx1 |-> x + bw - 1, by1 |-> y + bh - 1]

\* the one-pixel outline of a bw x bh rectangle, bw, bh >= 2
Ring(x, y, bw, bh) ==
    LET area == 2 * bw + 2 * bh - 4
    IN  [area |-> area,
         sumX |-> area * x + (area * (bw - 1)) \div 2,
         sumY |-> area * y + (area * (bh - 1)) \div 2,
         bx0 |-> x, by0 |-> y, bx1 |-> x + bw - 1, by1 |-> y + bh - 1]

\* <<kind, bw, bh>>: a speck, a 3:1 and a 4:1 bar, an oversized block, and
\* outlines of fill 0.19, 0.20 and 0.21
BlobShapes ==
    {<<"rect", 1, 1>>, <<"rect", 3, 1>>, <<"rect", 2, 2>>, <<"rect", 1, 4>>, <<"rect", 30, 30>>,
     <<"ring", 20, 20>>, <<"ring", 18, 20>>, <<"ring", 18, 18>>}

Blob(shape, x, y) ==
    IF shape[1] = "rect" THEN Rect(x, y, shape[2], shape[3])
    ELSE Ring(x, y, shape[2], shape[3])

FilterSide == 300

\* a blob high in the Region and one low in it, each at the left or the
\* right border, on or just inside the margin line
BlobPairs ==
    {<<Blob(s1, IF l1 THEN 10 + d1 ELSE FilterSide - 10 - d1 - s1[2], 10 + e1),
       Blob(s2, IF l2 THEN 10 + d2 ELSE FilterSide - 10 - d2 - s2[2], FilterSide - 10 - e2 - s2[3])>> :
        s1 \in BlobShapes, s2 \in BlobShapes,
        l1 \in BOOLEAN, l2 \in BOOLEAN,
        d1 \in {0, 1}, d2 \in {1}, e1 \in {1}, e2 \in {0, 1}}

InitFilter ==
    /\ cfg = DefaultConfig
    /\ env = [build |-> "filter", pool |-> "none", ox |-> 0, oy |-> 0, e |-> 0, f |-> 0]
    /\ \/ \E side \in SpeckleSides, ox \in {0, 1}, oy \in {0, 1} :
            \E s \in SpeckleStrides(side) :
               /\ SpecklesFit(side, s, ox, oy)
               /\ region = SquareRegion(side)
               /\ comps = Speckles(side, s, ox, oy)
       \/ /\ region = SquareRegion(FilterSide)
          /\ comps \in BlobPairs
    /\ pc = "filter"
    /\ hasFile = TRUE
    /\ w = region.width /\ h = region.height
    /\ t = cfg.OTSU_CLAMP_MIN
    /\ data = << >> /\ mask = {} /\ inkBox = NoBox /\ stats = NoStats
    /\ candidates = << >> /\ chosen = << >>
    /\ out = NoResponse
    /\ trace = <<"receive", "decode", "locate", "bboxgate", "crop", "paper",
                 "binarize", "label">>
    /\ memo = NoMemo

NextFilter == Filter \/ NoiseGate \/ MinShotsGate \/ Cluster \/ Correct

SpecFilter == InitFilter /\ [][NextFilter]_vars

-----------------------------------------------------------------------------
(* SpecFive: the handler from the labeling on, given the mask of a 100 x   *)
(* 100 Region holding five 5 x 5 dark squares: one centred 10 px right of  *)
(* and 10 px below the Region's center, four around it at distance d,      *)
(* along the axes ("plus") or the diagonals ("x")                          *)

FiveSide == 100
SquareSide == 5
FiveShift == 10

\* the mask indices of the SquareSide-square centred on (cx, cy)
SquareAt(cx, cy, iw) ==
    {(cy - SquareSide \div 2 + j) * iw + (cx - SquareSide \div 2 + i) :
        i \in 0..(SquareSide - 1), j \in 0..(SquareSide - 1)}

FiveOffsets(layout, d) ==
    IF layout = "plus" THEN {<<0, 0>>, <<d, 0>>, <<-d, 0>>, <<0, d>>, <<0, -d>>}
    ELSE {<<0, 0>>, <<d, d>>, <<-d, d>>, <<d, -d>>, <<-d, -d>>}

FiveSquares(layout, d, iw) ==
    UNION {SquareAt(iw \div 2 + FiveShift + o[1], iw \div 2 + FiveShift + o[2], iw) :
             o \in FiveOffsets(layout, d)}

\* spacings at which the squares are apart from each other and the outer
\* ones stay clear of the Region's margin
FiveGaps ==
    {d \in (SquareSide + 1)..FiveSide :
        FiveSide \div 2 + FiveShift + d - SquareSide \div 2 + SquareSide - 1
            < FiveSide - 1 - Margin(SquareRegion(FiveSide))}

InitFive ==
    /\ cfg = DefaultConfig
    /\ region = SquareRegion(FiveSide)
    /\ w = region.width /\ h = region.height
    /\ \E layout \in {"plus", "x"}, d \in FiveGaps :
          /\ env = [build |-> "five", pool |-> layout, ox |-> FiveShift, oy |-> FiveShift,
                    e |-> d, f |-> 0]
          /\ mask = FiveSquares(layout, d, w)
    /\ pc = "label"
    /\ hasFile = TRUE
    /\ t = cfg.OTSU_CLAMP_MIN
    /\ data = << >> /\ inkBox = NoBox /\ stats = NoStats
    /\ comps = << >> /\ candidates = << >> /\ chosen = << >>
    /\ out = NoResponse
    /\ trace = <<"receive", "decode", "locate", "bboxgate", "crop", "paper", "binarize">>
    /\ memo = NoMemo

NextFive == Label \/ Filter \/ NoiseGate \/ MinShotsGate \/ Cluster \/ Correct

SpecFive == InitFive /\ [][NextFive]_vars

-----------------------------------------------------------------------------
(* SpecDial: POST /api/sec/compute. Inches are counted in ten-thousandths, *)
(* click_value_moa is a fraction <<n, d>>, clicks are exact: sign, whole   *)
(* hundredths q and remainder r over c                                     *)

\* (-x_moa) / click_value_moa for impact x, in hundredths of a click
SignedClicks(x, d, m) ==
    LET KN == 1000 * m[2]
        KD == InchesPerMoaNum * d * m[1]
        g  == GCD(KN, KD)
        md == MulDiv(KN \div g, Abs(x), KD \div g)
    IN  [sgn |-> -Sign(x), q |-> md[1], r |-> md[2], c |-> KD \div g, kind |-> "num"]

\* abs < 0.0005 is q = 0 and r / c < 1/20 of a hundredth
formatDial(axis, clicksSigned) ==
    IF clicksSigned.q = 0 /\ 20 * clicksSigned.r < clicksSigned.c
    THEN [direction |-> IF axis = "windage" THEN "RIGHT" ELSE "UP", clicks |-> 0]
    ELSE [direction |-> IF axis = "windage"
                        THEN (IF clicksSigned.sgn > 0 THEN "RIGHT" ELSE "LEFT")
                        ELSE (IF clicksSigned.sgn > 0 THEN "UP" ELSE "DOWN"),
          clicks |-> Abs(round2(clicksSigned))]

NoDial == [direction |-> "", clicks |-> 0]

\* the route: the body's numbers are checked, then converted and formatted
compute(body) ==
    IF ~body.finite
    THEN [status |-> 400, error |-> "All inputs must be finite numbers.",
          windage |-> NoDial, elevation |-> NoDial]
    ELSE IF body.distance_yards <= 0
    THEN [status |-> 400, error |-> "distance_yards must be > 0",
          windage |-> NoDial, elevation |-> NoDial]
    ELSE IF body.click_value_moa[1] <= 0
    THEN [status |-> 400, error |-> "click_value_moa must be > 0",
          windage |-> NoDial, elevation |-> NoDial]
    ELSE [status |-> 200, error |-> "",
          windage |-> formatDial("windage",
                         SignedClicks(body.impact_x_in, body.distance_yards,
                                      body.click_value_moa)),
          elevation |-> formatDial("elevation",
                         SignedClicks(body.impact_y_in, body.distance_yards,
                                      body.click_value_moa))]

\* impacts from a ten-thousandth of an inch to five inches, either side
DialImpacts == {-50000, -2, -1, 0, 1, 2, 50000}
DialDistances == {-100, 0, 25, 100}
DialClickValues == {<<0, 1>>, <<25, 100>>, <<1, 1>>}

InitDial ==
    /\ cfg = DefaultConfig
    /\ \E x \in DialImpacts, y \in DialImpacts, d \in DialDistances,
          m \in DialClickValues, fin \in BOOLEAN :
          env = [build |-> "compute", impact_x_in |-> x, impact_y_in |-> y,
                 distance_yards |-> d, click_value_moa |-> m, finite |-> fin]
    /\ pc = "compute"
    /\ hasFile = FALSE
    /\ w = 0 /\ h = 0 /\ data = << >> /\ mask = {}
    /\ inkBox = NoBox /\ region = NoRegion /\ stats = NoStats /\ t = 0
    /\ comps = << >> /\ candidates = << >> /\ chosen = << >>
    /\ out = NoResponse /\ trace = << >> /\ memo = NoMemo

Compute ==
    /\ pc = "compute"
    /\ out' = compute(env)
    /\ pc' = "done"
    /\ UNCHANGED <<cfg, hasFile, w, h, data, inkBox, region, stats, t, mask,
                   comps, candidates, chosen, trace, memo, env>>

NextDial == Compute

SpecDial == InitDial /\ [][NextDial]_vars

-----------------------------------------------------------------------------
(* SpecLock: the POST /api/sec handler of the BULL LOGIC LOCK build, stage *)
(* by stage. The upload is described by what decoding and labeling yield   *)
(* from it: its size and its Components (a crosshair through the middle,   *)
(* and the marks). A form field is <<finite, value>>.                      *)

\* num(v, dflt)
num(v, dflt) == IF v[1] THEN v[2] ELSE dflt

\* parseTargetSpec(raw).ok for the specs "23", "0" and "abc"
parseTargetSpec(raw) ==
    IF raw = "23" THEN [ok |-> TRUE, reason |-> "", wIn |-> 23, hIn |-> 23]
    ELSE IF raw = "0" THEN [ok |-> FALSE, reason |-> "BAD_TARGET_SIZE", wIn |-> 0, hIn |-> 0]
    ELSE [ok |-> FALSE, reason |-> "BAD_TARGET_SIZE_SPEC", wIn |-> 0, hIn |-> 0]

LockReply(ok, status, code) ==
    [ok |-> ok, status |-> status, code |-> code, poibInches |-> [x |-> 0, y |-> 0],
     windage_clicks |-> 0, elevation_clicks |-> 0,
     dial |-> [windage |-> "", elevation |-> ""],
     expected |-> [windage |-> "", elevation |-> ""]]

\* the one-pixel crosshair through the middle of an iw x ih image
Crosshair(iw, ih) ==
    [area |-> iw + ih - 1,
     sumX |-> (iw * (iw - 1)) \div 2 + (ih - 1) * (iw \div 2),
     sumY |-> (ih * (ih - 1)) \div 2 + (iw - 1) * (ih \div 2),
     bx0 |-> 0, by0 |-> 0, bx1 |-> iw - 1, by1 |-> ih - 1]

\* the hole filter: area >= 35, not in a corner zone, box at most 35% of
\* the smaller image side, fill >= 0.10
IsHole(c, iw, ih) ==
    LET boxW == c.bx1 - c.bx0 + 1
        boxH == c.by1 - c.by0 + 1
        mx == (iw * 18) \div 100
        my == (ih * 18) \div 100
        inLeft   == c.sumX < mx * c.area
        inRight  == c.sumX > (iw - mx) * c.area
        inTop    == c.sumY < my * c.area
        inBottom == c.sumY > (ih - my) * c.area
    IN  /\ ~(c.area < 35)
        /\ ~((inLeft /\ inTop) \/ (inRight /\ inTop)
              \/ (inLeft /\ inBottom) \/ (inRight /\ inBottom))
        /\ ~(100 * boxW > 35 * Min(iw, ih) \/ 100 * boxH > 35 * Min(iw, ih))
        /\ ~(10 * c.area < boxW * boxH)

Holes(cs, iw, ih) ==
    LET Keep(c) == IsHole(c, iw, ih)
    IN  SelectSeq(cs, Keep)

LockSide == 100

\* what is labelled in the upload beside the crosshair: nothing, specks,
\* a 7 x 7 mark, or three of them
LockMarks ==
    {<< >>,
     <<PixelComp(30, 30), PixelComp(60, 70)>>,
     <<Rect(60, 30, 7, 7)>>,
     <<Rect(30, 30, 7, 7), Rect(40, 30, 7, 7), Rect(35, 60, 7, 7)>>,
     <<Rect(2, 2, 7, 7), Rect(60, 62, 7, 7)>>}

LockFields == {<<FALSE, 0>>, <<TRUE, -100>>, <<TRUE, 0>>, <<TRUE, 100>>}
LockClickFields == {<<FALSE, <<0, 1>>>>, <<TRUE, <<0, 1>>>>, <<TRUE, <<25, 100>>>>}
LockSpecs == {"23", "0", "abc"}

InitLock ==
    /\ cfg = DefaultConfig
    /\ \E file \in BOOLEAN, d \in LockFields, m \in LockClickFields,
          sp \in LockSpecs, marks \in LockMarks, readable \in BOOLEAN :
          env = [build |-> "lockroute", file |-> file, readable |-> readable,
                 distanceYards |-> d, clickValueMoa |-> m, targetSizeSpec |-> sp,
                 width |-> LockSide, height |-> LockSide,
                 comps |-> <<Crosshair(LockSide, LockSide)>> \o marks]
    /\ ~env.file => (~env.readable /\ env.comps = <<Crosshair(LockSide, LockSide)>>)
    /\ ~env.readable => env.comps = <<Crosshair(LockSide, LockSide)>>
    /\ pc = "receive"
    /\ hasFile = env.file
    /\ w = 0 /\ h = 0 /\ data = << >> /\ mask = {}
    /\ inkBox = NoBox /\ region = NoRegion /\ stats = NoStats /\ t = 0
    /\ comps = << >> /\ candidates = << >> /\ chosen = << >>
    /\ out = NoResponse /\ trace = << >> /\ memo = NoMemo

\* the fields are read, then the file and the target spec are checked
LockReceive ==
    /\ pc = "receive"
    /\ IF ~hasFile
       THEN pc' = "done" /\ out' = LockReply(FALSE, 400, "NO_IMAGE")
       ELSE IF ~parseTargetSpec(env.targetSizeSpec).ok
       THEN pc' = "done"
            /\ out' = LockReply(FALSE, 400, parseTargetSpec(env.targetSizeSpec).reason)
       ELSE pc' = "decode" /\ out' = out
    /\ Stage("receive")
    /\ UNCHANGED <<cfg, hasFile, w, h, data, inkBox, region, stats, t, mask,
                   comps, candidates, chosen, memo, env>>

\* sharp decodes and resizes the upload
LockDecoded ==
    /\ pc = "decode"
    /\ env.readable
    /\ w' = env.width /\ h' = env.height
    /\ pc' = "detect"
    /\ Stage("decode")
    /\ UNCHANGED <<cfg, hasFile, data, inkBox, region, stats, t, mask,
                   comps, candidates, chosen, out, memo, env>>

\* sharp throws: the catch answers SERVER_ERROR
LockDecodeFails ==
    /\ pc = "decode"
    /\ ~env.readable
    /\ out' = LockReply(FALSE, 500, "SERVER_ERROR")
    /\ pc' = "done"
    /\ Stage("decode")
    /\ UNCHANGED <<cfg, hasFile, w, h, data, inkBox, region, stats, t, mask,
                   comps, candidates, chosen, memo, env>>

\* dark mask, Components, crosshair, fiducials, scale, holes; no hole ends
\* the request with HOLES_NOT_FOUND
LockDetect ==
    /\ pc = "detect"
    /\ comps' = env.comps
    /\ candidates' = Holes(env.comps, w, h)
    /\ IF Len(candidates') = 0
       THEN pc' = "done" /\ out' = LockReply(TRUE, 200, "HOLES_NOT_FOUND")
       ELSE pc' = "convert" /\ out' = out
    /\ Stage("detect")
    /\ UNCHANGED <<cfg, hasFile, w, h, data, inkBox, region, stats, t, mask,
                   chosen, memo, env>>

\* POIB, the check of the click parameters, clicks and dial
LockConvert ==
    /\ pc = "convert"
    /\ LET r == BullLock(candidates, [x |-> w \div 2, y |-> h \div 2], <<w + h, 46>>,
                         num(env.distanceYards, 100),
                         num(env.clickValueMoa, <<25, 100>>))
       IN  out' = [ok |-> r.ok, status |-> IF r.ok THEN 200 ELSE 400, code |-> r.code,
                   poibInches |-> r.poibInches,
                   windage_clicks |-> r.windage_clicks,
                   elevation_clicks |-> r.elevation_clicks,
                   dial |-> r.dial, expected |-> r.expected]
    /\ pc' = "done"
    /\ Stage("convert")
    /\ UNCHANGED <<cfg, hasFile, w, h, data, inkBox, region, stats, t, mask,
                   comps, candidates, chosen, memo, env>>

NextLock == LockReceive \/ LockDecoded \/ LockDecodeFails \/ LockDetect \/ LockConvert

SpecLock == InitLock /\ [][NextLock]_vars

-----------------------------------------------------------------------------
(* SpecZero: the correction stage of the gated handler under Configs whose *)
(* DISTANCE_YARDS or MOA_PER_CLICK is 0, on the shot groups of SpecCalc    *)

ZeroConfigs ==
    {DefaultConfig,
     [DefaultConfig EXCEPT !.DISTANCE_YARDS = 0],
     [DefaultConfig EXCEPT !.MOA_PER_CLICK = <<0, 1>>],
     [DefaultConfig EXCEPT !.DISTANCE_YARDS = 0, !.MOA_PER_CLICK = <<0, 1>>]}

InitZero ==
    /\ cfg \in ZeroConfigs
    /\ \E width \in CalcWidths, k \in CalcSizes, e \in CalcNudges, f \in CalcNudges :
         \E ox \in CalcShifts(width), oy \in CalcShifts(width) :
            /\ env = [build |-> "gated", pool |-> "none", ox |-> ox, oy |-> oy,
                      e |-> e, f |-> f]
            /\ region = SquareRegion(width)
            /\ chosen = RowGroup(width \div 2 + ox, width \div 2 + oy, k, e, f)
    /\ pc = "correct"
    /\ candidates = chosen
    /\ comps = chosen
    /\ t = cfg.OTSU_CLAMP_MIN
    /\ hasFile = TRUE
    /\ w = region.width /\ h = region.height
    /\ data = << >> /\ mask = {} /\ inkBox = NoBox /\ stats = NoStats
    /\ out = NoResponse
    /\ trace = <<"receive", "decode", "locate", "bboxgate", "crop", "paper",
                 "binarize", "label", "filter", "noise", "minshots", "cluster">>
    /\ memo = NoMemo

NextZero == Correct

SpecZero == InitZero /\ [][NextZero]_vars

-----------------------------------------------------------------------------
(* SpecConc: several requests in flight. The handler suspends only at the  *)
(* await on the decode; what follows runs to completion, so the variables  *)
(* w .. out are the locals of the one invocation past its await, and       *)
(* env.waiting holds the uploads of the invocations suspended at theirs.   *)
(* Decodes complete in any order.                                          *)

MaxInFlight == 2

NoUpload == [w |-> 0, h |-> 0, bg |-> 0, darkGray |-> 0, ink |-> {}, dark |-> {}]

\* blank paper, and the full-size print with no, two or three marks
ConcUploads ==
    {d \in NonTargets : d.bg = 255 /\ d.ink = {}}
    \cup {d \in FewTargets :
            d.dark \in {{}, {<<ImgMid - 1, ImgMid - 1>>, <<ImgMid, ImgMid + 1>>},
                        {<<ImgMid - 1, ImgMid - 1>>, <<ImgMid + 1, ImgMid - 1>>,
                         <<ImgMid, ImgMid + 1>>}}}

ConcConfigs == {DefaultConfig, [DefaultConfig EXCEPT !.MIN_SHOTS = 1, !.MAX_SHOTS = 2]}

InitConc ==
    /\ cfg \in ConcConfigs
    /\ env = [build |-> "conc", pool |-> "conc", cfg0 |-> cfg,
              waiting |-> << >>, running |-> NoUpload, order |-> 0]
    /\ pc = "idle"
    /\ hasFile = FALSE
    /\ w = 0 /\ h = 0 /\ data = << >>
    /\ inkBox = NoBox /\ region = NoRegion /\ stats = NoStats
    /\ t = 0 /\ mask = {}
    /\ comps = << >> /\ candidates = << >> /\ chosen = << >>
    /\ out = NoResponse
    /\ trace = << >>
    /\ memo = NoMemo

\* a request arrives while no invocation is running: without a file it is
\* answered at once, with one it starts its decode and is suspended
Arrive ==
    /\ pc = "idle"
    /\ \/ /\ hasFile' = FALSE
          /\ pc' = "done" /\ out' = Reject("NO_FILE")
          /\ trace' = <<"receive">>
          /\ env' = [env EXCEPT !.running = NoUpload, !.order = 0]
       \/ /\ Len(env.waiting) < MaxInFlight
          /\ \E d \in ConcUploads :
                env' = [env EXCEPT !.waiting = Append(@, d)]
          /\ UNCHANGED <<pc, hasFile, out, trace>>
    /\ UNCHANGED <<cfg, w, h, data, inkBox, region, stats, t, mask, comps,
                   candidates, chosen, memo>>

\* the decode of the most recent upload is what every resumed invocation gets
ResumeLatest ==
    /\ pc = "idle"
    /\ \E i \in 1..Len(env.waiting) :
         LET d == env.waiting[i]
             last == env.waiting[Len(env.waiting)]
         IN  /\ w' = last.w /\ h' = last.h /\ data' = MakeImage(last)
             /\ env' = [env EXCEPT
                          !.waiting = SubSeq(@, 1, i - 1) \o SubSeq(@, i + 1, Len(@)),
                          !.running = d, !.order = i]
    /\ hasFile' = TRUE
    /\ pc' = "locate"
    /\ trace' = <<"receive", "decode">>
    /\ UNCHANGED <<cfg, inkBox, region, stats, t, mask, comps, candidates,
                   chosen, out, memo>>

\* the decode of one suspended invocation completes: it resumes with its
\* own image
Resume ==
    /\ pc = "idle"
    /\ \E i \in 1..Len(env.waiting) :
         LET d == env.waiting[i]
         IN  /\ w' = d.w /\ h' = d.h /\ data' = MakeImage(d)
             /\ env' = [env EXCEPT
                          !.waiting = SubSeq(@, 1, i - 1) \o SubSeq(@, i + 1, Len(@)),
                          !.running = d, !.order = i]
    /\ hasFile' = TRUE
    /\ pc' = "locate"
    /\ trace' = <<"receive", "decode">>
    /\ UNCHANGED <<cfg, inkBox, region, stats, t, mask, comps, candidates,
                   chosen, out, memo>>

NextConc ==
    \/ Arrive \/ Resume \/ Locate \/ BBoxGate \/ Crop \/ PaperGate
    \/ Binarize \/ Label \/ Filter \/ NoiseGate \/ MinShotsGate \/ Cluster
    \/ Correct \/ Respond

SpecConc == InitConc /\ [][NextConc]_vars

-----------------------------------------------------------------------------
(* SpecRegion: the handler from the Otsu threshold to the labeling, on     *)
(* small decoded images that pass the gates before it: white paper, the    *)
(* two opposite corners and some of four spots at a low or a middle grey,  *)
(* or one uniform off-white grey.  The Region is the whole image, or, of   *)
(* the image one pixel wider, all but its first column.                    *)

RegionSide == 5

\* spots: two side by side in the first two columns, one below, one touching
\* by a corner only
SpotPool == {<<0, 1>>, <<1, 1>>, <<1, 2>>, <<2, 3>>}

\* <<low grey, middle grey>>
RegionLevels == {<<0, 100>>, <<34, 200>>, <<35, 200>>, <<60, 100>>, <<60, 200>>,
                 <<149, 200>>, <<150, 234>>}

InitRegion ==
    /\ cfg = DefaultConfig
    /\ env = [build |-> "region", pool |-> "none", ox |-> 0, oy |-> 0, e |-> 0, f |-> 0]
    /\ w \in {RegionSide, RegionSide + 1} /\ h = RegionSide
    /\ \/ \E lv \in RegionLevels, A \in SUBSET SpotPool, c \in {1, 2} :
            \E B \in SUBSET (SpotPool \ A) :
               data = [i \in 0..(w * h - 1) |->
                         LET xy == <<i % w, i \div w>>
                         IN  IF xy \in {<<0, 0>>, <<w - 1, h - 1>>} THEN lv[c]
                             ELSE IF xy \in A THEN lv[1]
                             ELSE IF xy \in B THEN lv[2]
                             ELSE 255]
       \/ data = [i \in 0..(w * h - 1) |-> 232]
    /\ inkBox = findBBoxNotWhite(data, w, h, NotWhiteThresh)
    /\ inkBox.found /\ ~BBoxGateFails(inkBox, w, h, cfg)
    /\ region = SquareCrop(inkBox, w, h, cfg.INK_PAD_PCT)
    /\ stats = RegionStats(data, w, region, cfg)
    /\ ~PaperGateFails(stats, cfg)
    /\ pc = "binarize"
    /\ hasFile = TRUE
    /\ t = 0 /\ mask = {}
    /\ comps = << >> /\ candidates = << >> /\ chosen = << >>
    /\ out = NoResponse
    /\ trace = <<"receive", "decode", "locate", "bboxgate", "crop", "paper">>
    /\ memo = NoMemo

NextRegion == Binarize \/ Label

SpecRegion == InitRegion /\ [][NextRegion]_vars

-----------------------------------------------------------------------------
(* SpecFill: connectedComponents step by step, one action per iteration of *)
(* its loops, on the mask of a small Region.  env holds its locals:        *)
(* visited, stack and the running sums acc, and counts in pushed how often *)
(* each index has been put on the stack.                                   *)

\* masks: the subsets of a 3 x 3 block of the Region, and one covering 72%
\* of it, the most the paper gate lets be darker than the threshold
InitFill ==
    /\ cfg = DefaultConfig
    /\ w \in {RegionSide, RegionSide + 1} /\ h = RegionSide
    /\ region = [minX |-> w - RegionSide, minY |-> 0, maxX |-> w - 1, maxY |-> h - 1,
                 width |-> RegionSide, height |-> RegionSide]
    /\ \/ mask \in SUBSET {y * w + x : x \in (region.minX + 1)..(region.minX + 3),
                                       y \in 1..3}
       \/ mask = {i \in RegionIdx(region, w) :
                    100 * ((i \div w) * RegionSide + ((i % w) - region.minX) + 1)
                        <= 72 * RegionSide * RegionSide}
    /\ env = [build |-> "fill", visited |-> {}, stack |-> << >>,
              acc |-> [area |-> 0, sumX |-> 0, sumY |-> 0,
                       bx0 |-> w, by0 |-> h, bx1 |-> -1, by1 |-> -1],
              pushed |-> [i \in mask |-> 0]]
    /\ pc = "label"
    /\ hasFile = TRUE
    /\ t = cfg.OTSU_CLAMP_MAX
    /\ data = << >> /\ inkBox = NoBox /\ stats = NoStats
    /\ comps = << >> /\ candidates = << >> /\ chosen = << >>
    /\ out = NoResponse
    /\ trace = <<"receive", "decode", "locate", "bboxgate", "crop", "paper", "binarize">>
    /\ memo = NoMemo

\* the for loops over the Region: the next foreground pixel not yet visited
\* is marked and put on a new stack; when there is none, comps is returned
ScanNext ==
    /\ pc = "label"
    /\ env.stack = << >>
    /\ LET todo == (mask \cap RegionIdx(region, w)) \ env.visited
       IN  IF todo = {}
           THEN /\ pc' = "filter"
                /\ Stage("label")
                /\ env' = env
           ELSE LET i0 == SetMin(todo)
                IN  /\ env' = [env EXCEPT !.stack = <<i0>>,
                                          !.visited = @ \cup {i0},
                                          !.pushed[i0] = @ + 1,
                                          !.acc = [area |-> 0, sumX |-> 0, sumY |-> 0,
                                                   bx0 |-> w, by0 |-> h,
                                                   bx1 |-> -1, by1 |-> -1]]
                    /\ UNCHANGED <<pc, trace>>
    /\ UNCHANGED <<cfg, hasFile, w, h, data, inkBox, region, stats, t, mask,
                   comps, candidates, chosen, out, memo>>

\* an iteration of the while loop that marks a pixel visited when it is
\* popped, not when it is pushed
FillPopMarkLate ==
    /\ pc = "label"
    /\ env.stack # << >>
    /\ LET i  == env.stack[Len(env.stack)]
           s0 == SubSeq(env.stack, 1, Len(env.stack) - 1)
           ix == i % w
           iy == i \div w
           seen == env.visited \cup {i}
           acc2 == [area |-> env.acc.area + 1,
                    sumX |-> env.acc.sumX + ix, sumY |-> env.acc.sumY + iy,
                    bx0 |-> Min(env.acc.bx0, ix), by0 |-> Min(env.acc.by0, iy),
                    bx1 |-> Max(env.acc.bx1, ix), by1 |-> Max(env.acc.by1, iy)]
           goL == ix > region.minX /\ (i - 1) \in mask /\ (i - 1) \notin seen
           goR == ix < region.maxX /\ (i + 1) \in mask /\ (i + 1) \notin seen
           goU == iy > region.minY /\ (i - w) \in mask /\ (i - w) \notin seen
           goD == iy < region.maxY /\ (i + w) \in mask /\ (i + w) \notin seen
           new == (IF goL THEN <<i - 1>> ELSE << >>)
                  \o (IF goR THEN <<i + 1>> ELSE << >>)
                  \o (IF goU THEN <<i - w>> ELSE << >>)
                  \o (IF goD THEN <<i + w>> ELSE << >>)
           stack2 == s0 \o new
       IN  /\ env' = [env EXCEPT
                        !.stack = stack2,
                        !.visited = seen,
                        !.pushed = [j \in DOMAIN @ |->
                                      @[j] + Cardinality({n \in 1..Len(new) : new[n] = j})],
                        !.acc = acc2]
           /\ comps' = IF stack2 = << >> THEN Append(comps, acc2) ELSE comps
    /\ UNCHANGED <<pc, trace, cfg, hasFile, w, h, data, inkBox, region, stats, t,
                   mask, candidates, chosen, out, memo>>

\* an iteration of the while loop: pop, accumulate, mark and push the
\* unvisited foreground neighbours inside the Region; the Component is
\* appended when the stack has run empty
FillPop ==
    /\ pc = "label"
    /\ env.stack # << >>
    /\ LET i  == env.stack[Len(env.stack)]
           s0 == SubSeq(env.stack, 1, Len(env.stack) - 1)
           ix == i % w
           iy == i \div w
           acc2 == [area |-> env.acc.area + 1,
                    sumX |-> env.acc.sumX + ix, sumY |-> env.acc.sumY + iy,
                    bx0 |-> Min(env.acc.bx0, ix), by0 |-> Min(env.acc.by0, iy),
                    bx1 |-> Max(env.acc.bx1, ix), by1 |-> Max(env.acc.by1, iy)]
           goL == ix > region.minX /\ (i - 1) \in mask /\ (i - 1) \notin env.visited
           goR == ix < region.maxX /\ (i + 1) \in mask /\ (i + 1) \notin env.visited
           goU == iy > region.minY /\ (i - w) \in mask /\ (i - w) \notin env.visited
           goD == iy < region.maxY /\ (i + w) \in mask /\ (i + w) \notin env.visited
           new == (IF goL THEN <<i - 1>> ELSE << >>)
                  \o (IF goR THEN <<i + 1>> ELSE << >>)
                  \o (IF goU THEN <<i - w>> ELSE << >>)
                  \o (IF goD THEN <<i + w>> ELSE << >>)
           stack2 == s0 \o new
       IN  /\ env' = [env EXCEPT
                        !.stack = stack2,
                        !.visited = @ \cup {new[n] : n \in 1..Len(new)},
                        !.pushed = [j \in DOMAIN @ |->
                                      @[j] + Cardinality({n \in 1..Len(new) : new[n] = j})],
                        !.acc = acc2]
           /\ comps' = IF stack2 = << >> THEN Append(comps, acc2) ELSE comps
    /\ UNCHANGED <<pc, trace, cfg, hasFile, w, h, data, inkBox, region, stats, t,
                   mask, candidates, chosen, out, memo>>

NextFill == ScanNext \/ FillPop

\* the loops are synchronous code: they keep running
SpecFill == InitFill /\ [][NextFill]_vars /\ WF_vars(NextFill)

-----------------------------------------------------------------------------
(* SpecRange: the correction stage of the gated handler on groups of three *)
(* 9 x 9 px marks in a row, from 300 to 330 px right of the middle of a    *)
(* 1400 px Region, in steps of a third of a pixel                          *)

InitRange ==
    /\ cfg \in CalcConfigs
    /\ region = SquareRegion(1400)
    /\ \E ox \in 300..330, e \in 0..2 :
          /\ env = [build |-> "gated", pool |-> "none", ox |-> ox, oy |-> 0,
                    e |-> e, f |-> 0]
          /\ LET Shot(x) == [area |-> 81, sumX |-> 81 * x, sumY |-> 81 * 700,
                             bx0 |-> x - 4, by0 |-> 696, bx1 |-> x + 4, by1 |-> 704]
             IN  chosen = <<Shot(700 + ox - 12), Shot(700 + ox), Shot(700 + ox + 12 + e)>>
    /\ pc = "correct"
    /\ candidates = chosen
    /\ comps = chosen
    /\ t = cfg.OTSU_CLAMP_MIN
    /\ hasFile = TRUE
    /\ w = region.width /\ h = region.height
    /\ data = << >> /\ mask = {} /\ inkBox = NoBox /\ stats = NoStats
    /\ out = NoResponse
    /\ trace = <<"receive", "decode", "locate", "bboxgate", "crop", "paper",
                 "binarize", "label", "filter", "noise", "minshots", "cluster">>
    /\ memo = NoMemo

SpecRange == InitRange /\ [][Correct]_vars

-----------------------------------------------------------------------------
(* Claims *)

\* offset of the shot-group centroid from the region centre, dxPx = px/q
ShotOffset ==
    GroupOffset(chosen, 2 * region.minX + region.width, 2 * region.minY + region.height)

\* offset of the group centre from the bull in the BULL LOGIC LOCK build
BullOffset == GroupOffset(chosen, 2 * (w \div 2), 2 * (h \div 2))

Finished(b) == pc = "done" /\ env.build = b

\* 200 * |clicks| for an offset of p/q px under the default Config
\* (23 in, 100 yd, 0.25 MOA): 200 * (p/q) * (23/width) / 0.26175
DefaultClicksX200(p, q, width) == MulDiv(18400000, Abs(p), 1047 * q * width)
MoreThanHalfHundredth(p, q, width) ==
    LET m == DefaultClicksX200(p, q, width) IN m[1] > 1 \/ (m[1] = 1 /\ m[2] > 0)
AtLeastHalfHundredth(p, q, width) == DefaultClicksX200(p, q, width)[1] >= 1

\* C1 as stated: under the default Config a centroid right of the region
\* centre gives negative windageClicks and a centroid left of it positive
C1_WindageSignAsStated ==
    (Finished("gated") /\ cfg = DefaultConfig /\ out.ok) =>
        /\ ShotOffset.px > 0 => out.windage_clicks < 0
        /\ ShotOffset.px < 0 => out.windage_clicks > 0

\* C1 amended: right of centre never gives a positive value and gives a
\* negative one exactly when |dxClicks| > 0.005 (else it rounds to 0.00), so
\* targetWidthIn/4 inches right gives -21.97; left of centre never gives a
\* negative value and gives a positive one exactly when |dxClicks| >= 0.005
C1_WindageSign ==
    (Finished("gated") /\ cfg = DefaultConfig /\ out.ok) =>
        LET o == ShotOffset IN
        /\ o.px > 0 => /\ out.windage_clicks <= 0
                       /\ out.windage_clicks < 0 <=>
                              MoreThanHalfHundredth(o.px, o.q, region.width)
        /\ o.px < 0 => /\ out.windage_clicks >= 0
                       /\ out.windage_clicks > 0 <=>
                              AtLeastHalfHundredth(o.px, o.q, region.width)
        /\ 4 * o.px = o.q * region.width => out.windage_clicks = -2197

C1_Witness ==
    /\ Finished("gated") /\ cfg = DefaultConfig /\ out.ok
    /\ 4 * ShotOffset.px = ShotOffset.q * region.width
    /\ out.windage_clicks < 0

\* the vertical offset the build's conversion starts from (image Y grows down)
OffsetOf(b) == IF b = "lock" THEN BullOffset ELSE ShotOffset

C4_RangeGate ==
    \A b \in {"gated", "clean", "clean-group"} :
        Finished(b) =>
            LET o  == ShotOffset
                dx == ClickParts(o.px, o.q, region.width, cfg.TARGET_WIDTH_IN,
                                 cfg.DISTANCE_YARDS, cfg.MOA_PER_CLICK)
                dy == ClickParts(o.py, o.q, region.width, cfg.TARGET_WIDTH_IN,
                                 cfg.DISTANCE_YARDS, cfg.MOA_PER_CLICK)
            IN  /\ (AbsExceeds(dx, cfg.MAX_ABS_CLICKS) \/ AbsExceeds(dy, cfg.MAX_ABS_CLICKS))
                       => out.code = "OUT_OF_RANGE"
                /\ out.ok => /\ Abs(out.windage_clicks) <= 100 * cfg.MAX_ABS_CLICKS
                             /\ Abs(out.elevation_clicks) <= 100 * cfg.MAX_ABS_CLICKS

\* the stages of an invocation, in the order of the handler's text
StageOrder ==
    <<"receive", "decode", "locate", "bboxgate", "crop", "paper", "binarize",
      "label", "filter", "noise", "minshots", "cluster", "correct">>

IsPrefix(a, b) == Len(a) <= Len(b) /\ a = SubSeq(b, 1, Len(a))

Ran(stage) == \E i \in 1..Len(trace) : trace[i] = stage

\* C5: whenever a ShotGroup is produced, MIN_SHOTS <= |ShotGroup| <= MAX_SHOTS,
\* for every Config, MAX_SHOTS < MIN_SHOTS included
C5_ClusterBound ==
    Ran("cluster") =>
        /\ cfg.MIN_SHOTS <= Len(chosen)
        /\ Len(chosen) <= cfg.MAX_SHOTS

\* C6: the Region built by padding, clipping and squaring lies inside the
\* image, has width = maxX-minX+1 and height = maxY-minY+1, and is square
C6_RegionInvariant ==
    Ran("crop") =>
        /\ 0 <= region.minX /\ region.minX <= region.maxX /\ region.maxX < w
        /\ 0 <= region.minY /\ region.minY <= region.maxY /\ region.maxY < h
        /\ region.width = region.maxX - region.minX + 1
        /\ region.height = region.maxY - region.minY + 1
        /\ region.width = region.height

\* a crop of a box that the padding pushes over the image's edge on one axis
C6_Witness ==
    /\ Ran("crop")
    /\ inkBox.minX = 0 /\ inkBox.maxX = w - 1
    /\ inkBox.height < inkBox.width
    /\ cfg.INK_PAD_PCT[1] > 0
    /\ region.width = h

\* C7: every Candidate's bounding box is strictly inside the Region shrunk by
\* margin = max(10, round(region.width * 0.01)) on every side
C7_CandidateContainment ==
    \A i \in 1..Len(candidates) :
        LET m == Max(10, RoundDiv(region.width, 100))
            c == candidates[i]
        IN  /\ c.bx0 > region.minX + m
            /\ c.by0 > region.minY + m
            /\ c.bx1 < region.maxX - m
            /\ c.by1 < region.maxY - m

\* a Candidate accepted while another Component is dropped
C7_Witness ==
    /\ Ran("filter")
    /\ Len(candidates) > 0
    /\ Len(candidates) < Len(comps)

\* C8: a run on the decoded pixel buffer of a remembered run, under the same
\* Config, ends in the remembered run's outcome: the same rejection code, or
\* the same clicks and diagnostics
C8_Determinism ==
    (memo.set /\ pc = "done" /\ w = memo.w /\ h = memo.h /\ data = memo.data)
        => out = memo.out

\* a success repeated after a remembered success on the same image
C8_Witness ==
    /\ memo.set /\ pc = "done"
    /\ w = memo.w /\ h = memo.h /\ data = memo.data
    /\ out.ok
    /\ out.shotsUsed >= 2

GateStages == {"locate", "bboxgate", "paper", "noise", "minshots", "correct"}

GateCode(stage) ==
    CASE stage = "locate"   -> "NO_TARGET_REGION"
      [] stage = "bboxgate" -> "NOT_FULL_TARGET_IN_FRAME"
      [] stage = "paper"    -> "NOT_PAPER_TARGET"
      [] stage = "noise"    -> "TOO_NOISY"
      [] stage = "minshots" -> "NOT_ENOUGH_SHOTS"
      [] stage = "correct"  -> "OUT_OF_RANGE"

\* the gate of a stage that ran fails on what the stage was given
GateFails(stage) ==
    CASE stage = "locate"   -> ~inkBox.found
      [] stage = "bboxgate" -> BBoxGateFails(inkBox, w, h, cfg)
      [] stage = "paper"    -> PaperGateFails(RegionStats(data, w, region, cfg), cfg)
      [] stage = "noise"    -> Len(candidates) > cfg.MAX_CANDIDATES
      [] stage = "minshots" -> Len(candidates) < cfg.MIN_SHOTS
      [] stage = "correct"  ->
            LET o  == ShotOffset
                dx == ClickParts(o.px, o.q, region.width, cfg.TARGET_WIDTH_IN,
                                 cfg.DISTANCE_YARDS, cfg.MOA_PER_CLICK)
                dy == ClickParts(o.py, o.q, region.width, cfg.TARGET_WIDTH_IN,
                                 cfg.DISTANCE_YARDS, cfg.MOA_PER_CLICK)
            IN  AbsExceeds(dx, cfg.MAX_ABS_CLICKS) \/ AbsExceeds(dy, cfg.MAX_ABS_CLICKS)

\* C9: the stages run forward in the fixed order; an outcome ends the
\* invocation; a pipeline run ends in a success after every gate passed, or
\* in the one rejection of the first gate that fails, with no stage after it
C9_ForwardOnly ==
    /\ IsPrefix(trace, StageOrder)
    /\ out # NoResponse => pc = "done"
    /\ (pc = "done" /\ Ran("locate")) =>
          LET last == trace[Len(trace)]
              passed == \A i \in 1..(Len(trace) - 1) :
                            trace[i] \in GateStages => ~GateFails(trace[i])
          IN  /\ passed
              /\ \/ /\ out.ok
                    /\ out.code = "SUCCESS"
                    /\ trace = StageOrder
                    /\ ~GateFails("correct")
                 \/ /\ ~out.ok
                    /\ last \in GateStages
                    /\ GateFails(last)
                    /\ out.code = GateCode(last)

\* a rejection by the noise gate of a run whose MIN_SHOTS gate would fail too
C9_Witness ==
    /\ pc = "done"
    /\ out.code = "TOO_NOISY"
    /\ GateFails("minshots")
    /\ trace[Len(trace)] = "noise"

\* C10: more Candidates than MAX_CANDIDATES ends in TOO_NOISY; otherwise fewer
\* than MIN_SHOTS ends in NOT_ENOUGH_SHOTS; a success has
\* MIN_SHOTS <= candidatesFound <= MAX_CANDIDATES
C10_CandidateCountGates ==
    (pc = "done" /\ Ran("noise")) =>
        /\ Len(candidates) > cfg.MAX_CANDIDATES => out.code = "TOO_NOISY"
        /\ (Len(candidates) <= cfg.MAX_CANDIDATES /\ Len(candidates) < cfg.MIN_SHOTS)
              => out.code = "NOT_ENOUGH_SHOTS"
        /\ out.ok => /\ out.shotsDetected = Len(candidates)
                     /\ cfg.MIN_SHOTS <= out.shotsDetected
                     /\ out.shotsDetected <= cfg.MAX_CANDIDATES

\* a run with exactly MAX_CANDIDATES Candidates, fewer than MIN_SHOTS
C10_Witness ==
    /\ pc = "done" /\ Ran("noise")
    /\ Len(candidates) = cfg.MAX_CANDIDATES
    /\ out.code = "NOT_ENOUGH_SHOTS"

AllWhite == w > 0 /\ \A i \in DOMAIN data : data[i] >= 235

\* C11: an image whose every pixel is white (>= 235) is rejected with
\* NO_TARGET_REGION or NOT_PAPER_TARGET, is never labelled and yields no
\* correction
C11_AllWhiteRejected ==
    AllWhite =>
        /\ ~Ran("label") /\ ~Ran("correct")
        /\ pc = "done" => out.code \in {"NO_TARGET_REGION", "NOT_PAPER_TARGET"}

\* the rejection of a blank image whose pixels are all at the threshold
C11_Witness ==
    /\ AllWhite
    /\ data[0] = 235
    /\ pc = "done"
    /\ out.code = "NO_TARGET_REGION"

\* the Components are the isolated single-pixel speckles
SpeckleRegion ==
    /\ env.build = "filter"
    /\ Len(comps) = SpeckleCount
    /\ \A i \in 1..Len(comps) : comps[i].area = 1

\* C12: a Region white but for 200 isolated single-pixel dark speckles is
\* rejected with TOO_NOISY, whatever its size and the speckles' placement
C12_SpeckleNoise ==
    (SpeckleRegion /\ pc = "done") => out.code = "TOO_NOISY"

\* the mask is five separate squares around the shifted point of the Region
FiveScene ==
    /\ env.build = "five"
    /\ region.width = FiveSide
    /\ Cardinality(mask) = 5 * SquareSide * SquareSide

\* C13: five separate 5 x 5 dark squares around the point 10 px right of
\* and below the center of a 100 x 100 Region (23 in, 100 yd, 0.25 MOA per
\* click) each become one Candidate, the ClusterSelector keeps all five,
\* and the outcome is a success with negative windage clicks
C13_FiveSquares ==
    FiveScene =>
        /\ Ran("label") =>
              /\ Len(comps) = 5
              /\ \A i \in 1..Len(comps) : comps[i].area = SquareSide * SquareSide
        /\ Ran("filter") => candidates = comps
        /\ Ran("cluster") => chosen = candidates
        /\ pc = "done" =>
              /\ out.ok /\ out.code = "SUCCESS"
              /\ out.shotsDetected = 5 /\ out.shotsUsed = 5
              /\ out.windage_clicks < 0

\* the diagonal layout with the squares 6 px apart, answered -8.79 clicks
C13_Witness ==
    /\ FiveScene /\ env.pool = "x" /\ env.e = 6
    /\ pc = "done" /\ out.ok /\ out.shotsUsed = 5
    /\ out.windage_clicks = -879

\* the compute route has answered with dial texts
Dialed == env.build = "compute" /\ pc = "done" /\ out.status = 200

\* C14: the dial direction is a function of the sign of the signed clicks:
\* windage > 0 gives RIGHT and < 0 LEFT, elevation > 0 gives UP and < 0
\* DOWN, for values of very small magnitude too
C14_DialFromSign ==
    Dialed =>
        LET wc == SignedClicks(env.impact_x_in, env.distance_yards, env.click_value_moa)
            ec == SignedClicks(env.impact_y_in, env.distance_yards, env.click_value_moa)
        IN  /\ wc.sgn > 0 => out.windage.direction = "RIGHT"
            /\ wc.sgn < 0 => out.windage.direction = "LEFT"
            /\ ec.sgn > 0 => out.elevation.direction = "UP"
            /\ ec.sgn < 0 => out.elevation.direction = "DOWN"

\* the request of the BULL LOGIC LOCK route has no image, or a distance,
\* click value or target size that is not a positive finite number
InputError ==
    /\ env.build = "lockroute"
    /\ \/ ~env.file
       \/ ~env.distanceYards[1] \/ env.distanceYards[2] <= 0
       \/ ~env.clickValueMoa[1] \/ env.clickValueMoa[2][1] <= 0
       \/ env.targetSizeSpec # "23"

\* C15: a request with a missing image or a bad numeric configuration is
\* rejected before any pixel work, and never ends in an ok: true response
C15_InputErrorsFailFast ==
    InputError =>
        /\ ~Ran("decode") /\ ~Ran("detect")
        /\ pc = "done" => ~out.ok

\* the click computation of the invocation yields NaN or an infinity
NonFiniteClicks ==
    LET o == GroupOffset(chosen, 2 * region.minX + region.width,
                         2 * region.minY + region.height)
        dx == ClickParts(o.px, o.q, region.width, cfg.TARGET_WIDTH_IN,
                         cfg.DISTANCE_YARDS, cfg.MOA_PER_CLICK)
        dy == ClickParts(o.py, o.q, region.width, cfg.TARGET_WIDTH_IN,
                         cfg.DISTANCE_YARDS, cfg.MOA_PER_CLICK)
    IN  dx.kind # "num" \/ dy.kind # "num"

\* C16: an invocation whose click computation yields a non-finite value
\* (distance 0, MOA per click 0) does not return a success; NaN is never
\* turned into a successful 0.00 correction
C16_NoGarbage ==
    (pc = "done" /\ Ran("correct") /\ NonFiniteClicks) => ~out.ok

\* the response to the upload d under the Config c when the invocation runs
\* with nothing else in flight
RunAlone(d, c) ==
    LET gray == MakeImage(d)
        box  == findBBoxNotWhite(gray, d.w, d.h, NotWhiteThresh)
        reg  == SquareCrop(box, d.w, d.h, c.INK_PAD_PCT)
        st   == RegionStats(gray, d.w, reg, c)
        thr  == clamp(otsuThreshold(gray, RegionIdx(reg, d.w)),
                      c.OTSU_CLAMP_MIN, c.OTSU_CLAMP_MAX)
        cs   == connectedComponents(BuildMask(gray, RegionIdx(reg, d.w), thr),
                                    d.w, d.h, reg)
        cand == FilterSeq(cs, reg, c)
        counted(code) == [Reject(code) EXCEPT !.threshold = thr,
                                              !.shotsDetected = Len(cand)]
    IN  IF ~box.found THEN Reject("NO_TARGET_REGION")
        ELSE IF BBoxGateFails(box, d.w, d.h, c) THEN Reject("NOT_FULL_TARGET_IN_FRAME")
        ELSE IF PaperGateFails(st, c) THEN Reject("NOT_PAPER_TARGET")
        ELSE IF Len(cand) > c.MAX_CANDIDATES THEN counted("TOO_NOISY")
        ELSE IF Len(cand) < c.MIN_SHOTS THEN counted("NOT_ENOUGH_SHOTS")
        ELSE Correction(pickTightest(cand, c.MAX_SHOTS), reg, c, thr, Len(cand))

\* C17: whatever the interleaving of the requests in flight, an invocation's
\* outcome is the one it would have alone; the uploads of the suspended
\* invocations stay what arrived, and the Config is the one of startup
C17_Isolation ==
    env.build = "conc" =>
        /\ cfg = env.cfg0
        /\ \A i \in 1..Len(env.waiting) : env.waiting[i] \in ConcUploads
        /\ (pc = "done" /\ env.running # NoUpload) => out = RunAlone(env.running, cfg)

\* a success of the invocation that arrived second and resumed first, while
\* the first, with another target, is still suspended
C17_Witness ==
    /\ env.build = "conc"
    /\ pc = "done" /\ out.ok /\ out.shotsUsed >= 2
    /\ env.order = 2
    /\ Len(env.waiting) = 1
    /\ env.waiting[1] # env.running
    /\ env.waiting[1].dark # {}

\* the Candidate conditions as stated, for a Component of the current Region
CandidateAsStated(cmp) ==
    LET regionArea == region.width * region.height
        minArea == RoundDiv(regionArea * cfg.MIN_AREA_PCT[1], cfg.MIN_AREA_PCT[2])
        maxArea == RoundDiv(regionArea * cfg.MAX_AREA_PCT[1], cfg.MAX_AREA_PCT[2])
        margin == IF RoundDiv(region.width, 100) > 10 THEN RoundDiv(region.width, 100)
                  ELSE 10
        bw == cmp.bx1 - cmp.bx0 + 1
        bh == cmp.by1 - cmp.by0 + 1
        long == IF bw > bh THEN bw ELSE bh
        short == IF bw > bh THEN bh ELSE bw
    IN  /\ minArea <= cmp.area /\ cmp.area <= maxArea
        /\ long * cfg.MAX_ASPECT[2] <= cfg.MAX_ASPECT[1] * short
        /\ cmp.area * cfg.MIN_FILL[2] >= cfg.MIN_FILL[1] * bw * bh
        /\ cmp.bx0 > region.minX + margin /\ cmp.by0 > region.minY + margin
        /\ cmp.bx1 < region.maxX - margin /\ cmp.by1 < region.maxY - margin

\* C18: a Component is a Candidate if and only if its area is within
\* [minArea, maxArea], its aspect at most MAX_ASPECT, its fill at least
\* MIN_FILL and its bbox inside the margin; the Candidates are the
\* Components that qualify, in discovery order
C18_CandidateIff ==
    (env.build = "filter" /\ Ran("filter")) => candidates = SelectSeq(comps, CandidateAsStated)

\* an outline of fill exactly MIN_FILL one pixel inside the margin line and a
\* bar of aspect exactly MAX_ASPECT, both kept, in order
C18_Witness ==
    /\ env.build = "filter" /\ Ran("filter")
    /\ Len(comps) = 2 /\ candidates = comps
    /\ comps[1].area = 72 /\ comps[1].bx0 = 11
    /\ comps[2].area = 3 /\ comps[2].bx1 - comps[2].bx0 = 2

\* the product of the Candidates' areas: every centroid times it is integral
RECURSIVE AreaProduct(_)
AreaProduct(ps) == IF ps = << >> THEN 1 ELSE Head(ps).area * AreaProduct(Tail(ps))

\* n * P times the centroid of p, less the sum of P times every Candidate's
\* centroid, squared and summed over the axes: (n * P)^2 times the squared
\* distance of p from the mean of the n Candidate centroids
DistAsStated(p) ==
    LET n  == Len(candidates)
        P  == AreaProduct(candidates)
        X(c) == c.sumX * (P \div c.area)
        Y(c) == c.sumY * (P \div c.area)
        RECURSIVE SumX(_), SumY(_)
        SumX(j) == IF j = 0 THEN 0 ELSE X(candidates[j]) + SumX(j - 1)
        SumY(j) == IF j = 0 THEN 0 ELSE Y(candidates[j]) + SumY(j - 1)
        ddx == n * X(p) - SumX(n)
        ddy == n * Y(p) - SumY(n)
    IN  ddx * ddx + ddy * ddy

Kept(i) == \E j \in 1..Len(chosen) : chosen[j] = candidates[i]

\* C19: with n <= MAX_SHOTS the ShotGroup is the candidate list; otherwise
\* it has MAX_SHOTS members, all of them Candidates, and no discarded
\* Candidate is nearer the mean of all n centroids than a kept one
C19_ClusterResult ==
    Ran("cluster") =>
        IF Len(candidates) <= cfg.MAX_SHOTS THEN chosen = candidates
        ELSE /\ Len(chosen) = cfg.MAX_SHOTS
             /\ \A j \in 1..Len(chosen) : \E i \in 1..Len(candidates) :
                    chosen[j] = candidates[i]
             /\ \A j, k \in 1..Len(chosen) : j # k => chosen[j] # chosen[k]
             /\ \A i, k \in 1..Len(candidates) :
                    (Kept(i) /\ ~Kept(k)) =>
                        DistAsStated(candidates[i]) <= DistAsStated(candidates[k])

\* three Candidates cut to two, the one found first being the farthest
C19_Witness ==
    /\ Ran("cluster")
    /\ Len(candidates) = 3 /\ cfg.MAX_SHOTS = 2 /\ Len(chosen) = 2
    /\ ~Kept(1)
    /\ DistAsStated(candidates[1]) > DistAsStated(candidates[2])
    /\ DistAsStated(candidates[1]) > DistAsStated(candidates[3])

\* C20: with n > MAX_SHOTS, of Candidates at equal squared distance from
\* the mean the ones found first are kept in preference to later ones
C20_TieBreak ==
    (Ran("cluster") /\ Len(candidates) > cfg.MAX_SHOTS) =>
        \A i, k \in 1..Len(candidates) :
            (Kept(k) /\ DistAsStated(candidates[i]) = DistAsStated(candidates[k]) /\ i < k)
                => Kept(i)

\* a tie between the second and the third Candidate for the last place
C20_Witness ==
    /\ Ran("cluster")
    /\ Len(candidates) = 3 /\ cfg.MAX_SHOTS = 2
    /\ DistAsStated(candidates[2]) = DistAsStated(candidates[3])
    /\ DistAsStated(candidates[1]) < DistAsStated(candidates[2])
    /\ Kept(1) /\ Kept(2) /\ ~Kept(3)

\* the area and aspect checks applied to the Region that RegionLocator
\* makes of the ink box
GateFailsOnRegion ==
    LET reg == SquareCrop(inkBox, w, h, cfg.INK_PAD_PCT)
    IN  \/ reg.width * reg.height * cfg.MIN_BBOX_AREA_FRAC[2]
              < cfg.MIN_BBOX_AREA_FRAC[1] * w * h
        \/ reg.width * cfg.BBOX_ASPECT_MIN[2] < cfg.BBOX_ASPECT_MIN[1] * reg.height
        \/ reg.width * cfg.BBOX_ASPECT_MAX[2] > cfg.BBOX_ASPECT_MAX[1] * reg.height

\* C21: the plausibility gate's area and aspect checks are made on the
\* Region (the padded, clipped, squared box), and NOT_FULL_TARGET_IN_FRAME
\* is returned exactly when that Region fails them
C21_GateOnRegion ==
    (env.build = "gated" /\ Ran("bboxgate")) =>
        ((Len(trace) = 4 /\ pc = "done" /\ out.code = "NOT_FULL_TARGET_IN_FRAME")
            <=> GateFailsOnRegion)

\* the between-class variance wB*wF*(mB-mF)^2 of the split of the Region's
\* pixels into those <= v and the rest is n^2 / (wB * wF) over total^2, with
\* n = sumB * total - sum * wB
SplitOf(v) ==
    LET idx == RegionIdx(region, w)
        low == {i \in idx : data[i] <= v}
        RECURSIVE Sum(_)
        Sum(S) == IF S = {} THEN 0
                  ELSE LET i == CHOOSE j \in S : TRUE IN data[i] + Sum(S \ {i})
        n == Sum(low) * Cardinality(idx) - Sum(idx) * Cardinality(low)
    IN  [wB |-> Cardinality(low), wF |-> Cardinality(idx) - Cardinality(low),
         n |-> IF n < 0 THEN -n ELSE n]

\* the split a is at least as good as the split b
SplitAtLeast(a, b) ==
    ~BigGreater(BigMul(BigMul(BigOf(b.n), BigOf(b.n)), BigOf(a.wB * a.wF)),
                BigMul(BigMul(BigOf(a.n), BigOf(a.n)), BigOf(b.wB * b.wF)))

\* C22: the threshold used is clamp(t*, OTSU_CLAMP_MIN, OTSU_CLAMP_MAX) for a
\* split point t* that maximizes the between-class variance over the splits
\* with both classes non-empty, and lies in [OTSU_CLAMP_MIN, OTSU_CLAMP_MAX],
\* also when the Region is uniform.  A split point of 0..255 with both
\* classes non-empty makes the same two classes as the greatest grey level
\* of the Region at or below it, so the splits are taken at those levels.
C22_OtsuClamped ==
    (env.build = "region" /\ Ran("binarize")) =>
        LET levels == {data[i] : i \in RegionIdx(region, w)}
            split  == [v \in levels |-> SplitOf(v)]
            proper == {v \in levels : split[v].wB > 0 /\ split[v].wF > 0}
        IN  /\ cfg.OTSU_CLAMP_MIN <= t /\ t <= cfg.OTSU_CLAMP_MAX
            /\ proper # {} =>
                   \E ts \in proper :
                      /\ \A v \in proper : SplitAtLeast(split[ts], split[v])
                      /\ t = (IF ts < cfg.OTSU_CLAMP_MIN THEN cfg.OTSU_CLAMP_MIN
                              ELSE IF ts > cfg.OTSU_CLAMP_MAX THEN cfg.OTSU_CLAMP_MAX
                              ELSE ts)

\* a three-level Region whose best split, at grey 60, is used unclamped
C22_Witness ==
    /\ env.build = "region" /\ Ran("binarize")
    /\ t = 60
    /\ Cardinality({data[i] : i \in DOMAIN data}) = 3

\* the foreground of the Region: its pixels of intensity < t
Foreground == {i \in RegionIdx(region, w) : data[i] < t}

\* two pixel indices side by side in a row or in a column
Adjacent4(i, j) ==
    \/ i \div w = j \div w /\ (i - j = 1 \/ j - i = 1)
    \/ i % w = j % w /\ (i - j = w \/ j - i = w)

\* the pixels of S and those 4-connected to them within the foreground
RECURSIVE Connected(_)
Connected(S) ==
    LET more == S \cup {j \in Foreground : \E i \in S : Adjacent4(i, j)}
    IN  IF more = S THEN S ELSE Connected(more)

MaximalSets == {Connected({i}) : i \in Foreground}

RECURSIVE SumOver(_, _)
SumOver(S, axis) ==
    IF S = {} THEN 0
    ELSE LET i == CHOOSE j \in S : TRUE
         IN  (IF axis = "x" THEN i % w ELSE i \div w) + SumOver(S \ {i}, axis)

\* area, coordinate sums and bbox of a pixel set
Measured(S) ==
    [area |-> Cardinality(S), sumX |-> SumOver(S, "x"), sumY |-> SumOver(S, "y"),
     bx0 |-> SetMin({i % w : i \in S}), by0 |-> SetMin({i \div w : i \in S}),
     bx1 |-> SetMax({i % w : i \in S}), by1 |-> SetMax({i \div w : i \in S})]

RECURSIVE AreaSum(_)
AreaSum(cs) == IF cs = << >> THEN 0 ELSE Head(cs).area + AreaSum(Tail(cs))

\* C23: the Components are exactly the maximal 4-connected sets of
\* foreground pixels (intensity < t) of the Region: one Component per such
\* set, measured on its pixels alone, so that adjacent pixels share a
\* Component, pixels touching by a corner do not, no pixel outside the
\* Region is counted, and the areas sum to the number of foreground pixels
C23_Partition ==
    (env.build = "region" /\ Ran("label")) =>
        /\ mask = Foreground
        /\ Len(comps) = Cardinality(MaximalSets)
        /\ {comps[k] : k \in 1..Len(comps)} = {Measured(S) : S \in MaximalSets}
        /\ AreaSum(comps) = Cardinality(Foreground)

\* two pixels joined one below the other, cut off from the dark pixel beside
\* them in the column outside the Region, and apart from one touching by a
\* corner
C23_Witness ==
    /\ env.build = "region" /\ Ran("label")
    /\ region.minX = 1
    /\ data[w] < t /\ w + 1 \in Foreground
    /\ \E k \in 1..Len(comps) : comps[k].area = 2 /\ comps[k].bx0 = 1 /\ comps[k].by1 = 2
    /\ \E k \in 1..Len(comps) : comps[k].area = 1 /\ comps[k].bx0 = 2 /\ comps[k].by0 = 3

\* no index has been pushed twice, what is on the stack is marked visited,
\* the stack holds no more entries than the Region has pixels, and the
\* labeling has returned only with an empty stack and the Components of
\* the mask
FillInv ==
    /\ \A i \in DOMAIN env.pushed : env.pushed[i] <= 1
    /\ \A n \in 1..Len(env.stack) : env.stack[n] \in env.visited
    /\ Len(env.stack) <= region.width * region.height
    /\ \A i \in env.visited : env.pushed[i] = 1
    /\ pc = "filter" =>
          /\ env.stack = << >>
          /\ env.visited = mask
          /\ comps = connectedComponents(mask, w, h, region)

\* C24: during labeling each pixel index is pushed on the stack at most
\* once (it is marked visited before it is pushed, and stays marked), the
\* stack never holds more entries than the Region has pixels, and for every
\* mask the labeling ends, with an empty stack
C24_FillTerminates ==
    /\ [](env.build = "fill" => FillInv)
    /\ [][env.visited \subseteq env.visited']_vars
    /\ <>(pc = "filter" /\ env.stack = << >>)

\* the labeling of the 18-pixel mask has returned, the stack having held
\* several entries on the way
C24_Witness ==
    /\ env.build = "fill" /\ pc = "filter"
    /\ 100 * Cardinality(env.visited) >= 70 * RegionSide * RegionSide
    /\ Len(comps) = 1 /\ comps[1].area = Cardinality(mask)

\* C25: in every computed response of the BULL LOGIC LOCK build the dial
\* words are the expected ones (LEFT / RIGHT / CENTER for a group right of /
\* left of / level with the bull, UP / DOWN / LEVEL for a group below /
\* above / level with it), so neither DIRECTION_INCONGRUENT entry is added
C25_DirectionCongruent ==
    (env.build = "lock" /\ pc = "done" /\ out.ok) =>
        /\ out.dial.windage = out.expected.windage
        /\ out.dial.elevation = out.expected.elevation

\* C26: the handler rounds the click values to 2 places and then compares
\* the rounded magnitudes with MAX_ABS_CLICKS: a correction ends in
\* OUT_OF_RANGE exactly when a rounded value exceeds the limit, and one whose
\* rounded magnitude equals the limit is a success
C26_RangeOnRounded ==
    (env.build = "gated" /\ pc = "done" /\ Ran("correct")) =>
        (out.code = "OUT_OF_RANGE"
            <=> \/ Abs(out.windage_clicks) > 100 * cfg.MAX_ABS_CLICKS
                \/ Abs(out.elevation_clicks) > 100 * cfg.MAX_ABS_CLICKS)

\* the grey levels that occur in the Region
RegionValues == {data[i] : i \in RegionIdx(region, w)}

\* C27: when the pixels of the Region take exactly two values lo < hi with
\* lo < OTSU_CLAMP_MAX and hi >= OTSU_CLAMP_MIN, the mask holds every lo pixel
\* of the Region and no hi pixel
C27_TwoLevels ==
    (env.build = "region" /\ Ran("binarize") /\ Cardinality(RegionValues) = 2) =>
        LET lo == SetMin(RegionValues)
            hi == SetMax(RegionValues)
        IN  (lo < cfg.OTSU_CLAMP_MAX /\ hi >= cfg.OTSU_CLAMP_MIN) =>
                mask = {i \in RegionIdx(region, w) : data[i] = lo}

\* every Component was chosen and the foreground is its own mirror image in
\* the middle column and in the middle row of the Region
CenteredGroup ==
    /\ Len(chosen) = Len(comps) /\ mask # {}
    /\ \A i \in mask :
          /\ (i \div w) * w + (region.minX + region.maxX - (i % w)) \in mask
          /\ (region.minY + region.maxY - (i \div w)) * w + (i % w) \in mask

\* C28: a chosen group whose pixels are mirror-symmetric about the middle of
\* the Region (columns minX..maxX, rows minY..maxY) has dxPx = 0 and
\* dyPx = 0, and the response carries windageClicks = 0 and
\* elevationClicks = 0
C28_CenteredIsZero ==
    (env.build \in {"gated", "five"} /\ pc = "done" /\ Ran("correct") /\ CenteredGroup) =>
        /\ out.ok
        /\ out.dxPx = 0 /\ out.dyPx = 0
        /\ out.windage_clicks = 0 /\ out.elevation_clicks = 0

\* the Region without its margin band of max(10, round(width / 100)) px
ShrunkRegion ==
    LET margin == Max(MinMargin, RoundDiv(region.width, 100))
    IN  [minX |-> region.minX + margin, minY |-> region.minY + margin,
         maxX |-> region.maxX - margin, maxY |-> region.maxY - margin]

\* |a| < |b| for click values a, b in parts
PartsLess(a, b) ==
    \/ a.q < b.q
    \/ a.q = b.q /\ FracLess(a.r, a.c, b.r, b.c)

\* C29: in every invocation that reaches the correction the centroid of every
\* chosen candidate, and so of the group, lies strictly inside the Region
\* shrunk by the margin; |dxPx| < width/2 and |dyPx| < height/2; both click values are
\* smaller in magnitude than targetWidthIn / (2 * 1.047 * (distanceYards/100)
\* * moaPerClick); and under the default Config the response is never
\* OUT_OF_RANGE
C29_OffsetBound ==
    (env.build = "gated" /\ pc = "done" /\ Ran("correct") /\ chosen # << >>) =>
        LET off == GroupOffset(chosen, 2 * region.minX + region.width,
                               2 * region.minY + region.height)
            bound == ClickParts(region.width, 2, region.width, cfg.TARGET_WIDTH_IN,
                                cfg.DISTANCE_YARDS, cfg.MOA_PER_CLICK)
            dxC == ClickParts(off.px, off.q, region.width, cfg.TARGET_WIDTH_IN,
                              cfg.DISTANCE_YARDS, cfg.MOA_PER_CLICK)
            dyC == ClickParts(off.py, off.q, region.width, cfg.TARGET_WIDTH_IN,
                              cfg.DISTANCE_YARDS, cfg.MOA_PER_CLICK)
        IN  /\ \A n \in 1..Len(chosen) :
                  /\ chosen[n].sumX > chosen[n].area * ShrunkRegion.minX
                  /\ chosen[n].sumX < chosen[n].area * ShrunkRegion.maxX
                  /\ chosen[n].sumY > chosen[n].area * ShrunkRegion.minY
                  /\ chosen[n].sumY < chosen[n].area * ShrunkRegion.maxY
            /\ 2 * Abs(off.px) < region.width * off.q
            /\ 2 * Abs(off.py) < region.height * off.q
            /\ PartsLess(dxC, bound) /\ PartsLess(dyC, bound)
            /\ cfg = DefaultConfig =>
                  /\ out.code = "SUCCESS"
                  /\ Abs(out.windage_clicks) <= round2(bound)
                  /\ Abs(out.elevation_clicks) <= round2(bound)
                  /\ round2(bound) < 100 * cfg.MAX_ABS_CLICKS

\* a correction under the default Config for a group off the middle of the
\* Region in both axes
C29_Witness ==
    /\ env.build = "gated" /\ pc = "done" /\ Ran("correct")
    /\ cfg = DefaultConfig /\ Len(chosen) >= cfg.MIN_SHOTS
    /\ out.code = "SUCCESS"
    /\ Abs(out.dxPx) > 50 /\ Abs(out.dyPx) > 50

\* the pixels of S and those 4-connected to them within the mask
RECURSIVE MaskConnected(_)
MaskConnected(S) ==
    LET more == S \cup {j \in mask \cap RegionIdx(region, w) :
                            \E i \in S : Adjacent4(i, j)}
    IN  IF more = S THEN S ELSE MaskConnected(more)

\* c measures a connected set of mask pixels that its bbox contains
HasPixels(c) ==
    \E i \in mask :
        LET S == MaskConnected({i})
        IN  /\ Cardinality(S) = c.area
            /\ SumOver(S, "x") = c.sumX /\ SumOver(S, "y") = c.sumY
            /\ \A j \in S : /\ c.bx0 <= j % w /\ j % w <= c.bx1
                             /\ c.by0 <= j \div w /\ j \div w <= c.by1

\* with cx = sumX / area, bw = bx1 - bx0 + 1, fill = area / (bw * bh) and
\* aspect = max(bw / bh, bh / bw)
WellFormed(c) ==
    LET bw == c.bx1 - c.bx0 + 1
        bh == c.by1 - c.by0 + 1
    IN  /\ c.area >= 1
        /\ c.bx0 <= c.bx1 /\ c.by0 <= c.by1
        /\ c.area * c.bx0 <= c.sumX /\ c.sumX <= c.area * c.bx1
        /\ c.area * c.by0 <= c.sumY /\ c.sumY <= c.area * c.by1
        /\ c.area <= bw * bh
        /\ ~FracLess(Max(bw, bh), Min(bw, bh), 1, 1)
        /\ HasPixels(c)

\* C30: every Component the labeler has appended has area >= 1, a bbox with
\* bx0 <= bx1 and by0 <= by1 that contains its pixels and its centroid,
\* area <= bw * bh (0 < fill <= 1) and aspect >= 1, and an appended Component
\* is never changed: comps only grows at its end
C30_WellFormed ==
    /\ [](env.build = "fill" => \A n \in 1..Len(comps) : WellFormed(comps[n]))
    /\ [][IsPrefix(comps, comps')]_vars

\* the labeling has returned several Components, one of them not filling its
\* bbox
C30_Witness ==
    /\ env.build = "fill" /\ pc = "filter"
    /\ Len(comps) >= 2
    /\ \E n \in 1..Len(comps) :
          /\ comps[n].area >= 3
          /\ comps[n].area < (comps[n].bx1 - comps[n].bx0 + 1)
                                * (comps[n].by1 - comps[n].by0 + 1)

=============================================================================
